---- MODULE Spec2Model ----
(***************************************************************************)
(* A model of the chat proxies of src/index.js.  The file holds two        *)
(* programs: the Express proxy (lines 1-32: dotenv, cors(), express.json() *)
(* and an axios call) and the raw-http proxy (lines 34-139: loadEnv,       *)
(* setCors and an https.request whose response is collected by 'data' and  *)
(* 'end' handlers).                                                         *)
(*                                                                         *)
(* Texts are sequences of characters, a character being a one-character    *)
(* string, or "U+00E9" / "U+FFFD" for the two non-ASCII code points of the *)
(* model.  What travels on a socket is a sequence of bytes: an ASCII       *)
(* character is its own byte, U+00E9 is the bytes "C3" "A9" and U+FFFD the *)
(* bytes "EF" "BF" "BD".  The texts of the model use the characters        *)
(*   { } [ ] : , " . + - < space, the digits, the letters e E and the      *)
(*   letters of the words true false null and of the property names;       *)
(* they hold no backslash and no control character, so a JSON string has   *)
(* no escape sequence to decode or to produce.                              *)
(***************************************************************************)
EXTENDS Integers, Sequences, FiniteSets, TLC

\* ------------------------------------------------------------------ bounds

\* The longest .env file, in lines.
MaxLines == 2

\* Longest message content / payload string the environment sends.
MaxStr == 1

\* Most 'data' events one body is delivered in.
MaxChunks == 2

\* Most records the vector index holds before the first request.
MaxIndexed == 6

\* Most replies of the Chat page that are pending at one time.
MaxPending == 2

\* Longest chat history, in messages.
MaxHistory == 6

\* Longest search term of the Documents page, in characters.
MaxTerm == 3

\* --------------------------------------------------------------- characters

QUOTE == "\""

EACUTE == "U+00E9"

REPLACEMENT == "U+FFFD"

DigitChars == <<"0", "1", "2", "3", "4", "5", "6", "7", "8", "9">>

IsDigit(c) == \E d \in 1..10 : DigitChars[d] = c

DigitVal(c) == (CHOOSE d \in 1..10 : DigitChars[d] = c) - 1

\* ------------------------------------------------------------------- UTF-8

RECURSIVE Utf8Encode(_)
\* Buffer.from(text, 'utf8'): what write(string) puts on the socket.
Utf8Encode(chars) ==
    IF chars = <<>> THEN <<>>
    ELSE LET c == Head(chars)
             b == IF c = EACUTE THEN <<"C3", "A9">>
                  ELSE IF c = REPLACEMENT THEN <<"EF", "BF", "BD">>
                  ELSE <<c>>
         IN b \o Utf8Encode(Tail(chars))

RECURSIVE Utf8Decode(_)
\* buffer.toString('utf8') of ONE buffer: a complete sequence decodes to its
\* code point; a lead byte without its continuation bytes, and a continuation
\* byte without its lead byte, each decode to U+FFFD.
Utf8Decode(bytes) ==
    IF bytes = <<>> THEN <<>>
    ELSE LET b == Head(bytes)
             n == Len(bytes)
         IN IF b = "C3"
            THEN IF n >= 2 /\ bytes[2] = "A9"
                 THEN <<EACUTE>> \o Utf8Decode(SubSeq(bytes, 3, n))
                 ELSE <<REPLACEMENT>> \o Utf8Decode(Tail(bytes))
            ELSE IF b = "EF"
            THEN IF n >= 3 /\ bytes[2] = "BF" /\ bytes[3] = "BD"
                 THEN <<REPLACEMENT>> \o Utf8Decode(SubSeq(bytes, 4, n))
                 ELSE IF n >= 2 /\ bytes[2] = "BF"
                 THEN <<REPLACEMENT>> \o Utf8Decode(SubSeq(bytes, 3, n))
                 ELSE <<REPLACEMENT>> \o Utf8Decode(Tail(bytes))
            ELSE IF b \in {"A9", "BF", "BD"}
            THEN <<REPLACEMENT>> \o Utf8Decode(Tail(bytes))
            ELSE <<b>> \o Utf8Decode(Tail(bytes))

\* ---------------------------------------------------------------- JS values

Undefined == [ty |-> "undefined"]

Null == [ty |-> "null"]

Bool(b) == [ty |-> "bool", b |-> b]

\* A finite number is the decimal m * 10^e, m not a multiple of 10 (or 0, 0).
Num(m, e) == [ty |-> "num", m |-> m, e |-> e]

Infinity == [ty |-> "inf", neg |-> FALSE]

Str(s) == [ty |-> "str", s |-> s]

Arr(items) == [ty |-> "arr", items |-> items]

\* An object is its own properties in property order.
Obj(props) == [ty |-> "obj", props |-> props]

Prop(k, v) == [k |-> k, v |-> v]

\* ------------------------------------------------------------------ numbers

Abs(n) == IF n < 0 THEN 0 - n ELSE n

RECURSIVE NumDigits(_)
NumDigits(n) == IF n < 10 THEN 1 ELSE 1 + NumDigits(n \div 10)

RECURSIVE Pow10(_)
Pow10(k) == IF k <= 0 THEN 1 ELSE 10 * Pow10(k - 1)

RECURSIVE Normalise(_, _)
\* The decimal m * 10^e without trailing zeros in m.
Normalise(m, e) ==
    IF m = 0 THEN Num(0, 0)
    ELSE IF m % 10 = 0 THEN Normalise(m \div 10, e + 1)
    ELSE Num(m, e)

\* The decimal literal read exactly (the number the text denotes).
ExactNumber(neg, m, e) == Normalise(IF neg THEN 0 - m ELSE m, e)

\* StringToNumber of ECMAScript on a decimal literal of at most 9 significant
\* digits: the nearest double.  0.d1d2... * 10^n is Infinity from
\* 1.7976931348623158e308 on and 0 below 1e-324; in between, a decimal this
\* short is read back from its double unchanged.  (Literals between 1e-324 and
\* 1e-300 are not among the model's inputs.)
StringToNumber(neg, m, e) ==
    LET x  == Normalise(m, e)
        k  == NumDigits(x.m)
        n  == k + x.e
        m9 == x.m * Pow10(9 - k)
    IN IF x.m = 0 THEN Num(0, 0)
       ELSE IF n > 309 \/ (n = 309 /\ m9 > 179769313)
       THEN [ty |-> "inf", neg |-> neg]
       ELSE IF n < 0 - 323 THEN Num(0, 0)
       ELSE Num(IF neg THEN 0 - x.m ELSE x.m, x.e)

RECURSIVE IntToChars(_)
IntToChars(n) ==
    IF n < 10 THEN <<DigitChars[n + 1]>>
    ELSE IntToChars(n \div 10) \o <<DigitChars[(n % 10) + 1]>>

RECURSIVE Zeros(_)
Zeros(k) == IF k <= 0 THEN <<>> ELSE <<"0">> \o Zeros(k - 1)

\* Number::toString of ECMAScript for the finite number m * 10^e.
NumberToString(m, e) ==
    LET d    == IntToChars(Abs(m))
        k    == Len(d)
        n    == k + e
        sign == IF m < 0 THEN <<"-">> ELSE <<>>
        x    == n - 1
        exp  == <<"e">> \o (IF x < 0 THEN <<"-">> ELSE <<"+">>) \o IntToChars(Abs(x))
    IN IF m = 0 THEN <<"0">>
       ELSE IF k <= n /\ n <= 21 THEN sign \o d \o Zeros(n - k)
       ELSE IF 0 < n /\ n <= 21
       THEN sign \o SubSeq(d, 1, n) \o <<".">> \o SubSeq(d, n + 1, k)
       ELSE IF 0 - 6 < n /\ n <= 0
       THEN sign \o <<"0", ".">> \o Zeros(0 - n) \o d
       ELSE IF k = 1 THEN sign \o d \o exp
       ELSE sign \o <<d[1], ".">> \o SubSeq(d, 2, k) \o exp

\* --------------------------------------------------------------- JSON.parse

Fail == [ok |-> FALSE, v |-> Undefined, i |-> 0]

Ok(v, i) == [ok |-> TRUE, v |-> v, i |-> i]

\* The character at position i, "" past the end of the text.
At(t, i) == IF i >= 1 /\ i <= Len(t) THEN t[i] ELSE ""

RECURSIVE SkipWs(_, _)
SkipWs(t, i) == IF At(t, i) = " " THEN SkipWs(t, i + 1) ELSE i

RECURSIVE ScanDigits(_, _, _, _)
ScanDigits(t, i, acc, n) ==
    IF IsDigit(At(t, i))
    THEN ScanDigits(t, i + 1, acc * 10 + DigitVal(At(t, i)), n + 1)
    ELSE [v |-> acc, n |-> n, i |-> i]

\* number = [-] int [frac] [exp]; int is 0 or a digit string without leading 0.
ParseNumber(t, i, exact) ==
    LET neg  == At(t, i) = "-"
        i1   == IF neg THEN i + 1 ELSE i
        int  == IF At(t, i1) = "0" THEN [v |-> 0, n |-> 1, i |-> i1 + 1]
                ELSE ScanDigits(t, i1, 0, 0)
        hasF == At(t, int.i) = "."
        frac == IF hasF THEN ScanDigits(t, int.i + 1, int.v, 0) ELSE int
        fexp == IF hasF THEN 0 - frac.n ELSE 0
        hasE == At(t, frac.i) \in {"e", "E"}
        sgn  == At(t, frac.i + 1)
        ex   == IF hasE
                THEN ScanDigits(t, IF sgn \in {"+", "-"} THEN frac.i + 2
                                   ELSE frac.i + 1, 0, 0)
                ELSE [v |-> 0, n |-> 1, i |-> frac.i]
        e    == fexp + (IF hasE /\ sgn = "-" THEN 0 - ex.v ELSE ex.v)
    IN IF int.n = 0 \/ (hasF /\ frac.n = 0) \/ (hasE /\ ex.n = 0) THEN Fail
       ELSE Ok(IF exact THEN ExactNumber(neg, frac.v, e)
               ELSE StringToNumber(neg, frac.v, e), ex.i)

RECURSIVE ScanString(_, _)
\* The position of the closing quote from j on, 0 when the string never ends.
ScanString(t, j) ==
    IF j > Len(t) THEN 0
    ELSE IF t[j] = QUOTE THEN j
    ELSE ScanString(t, j + 1)

\* t[i] is the opening quote.
ParseString(t, i) ==
    LET j == ScanString(t, i + 1)
    IN IF j = 0 THEN Fail ELSE Ok(Str(SubSeq(t, i + 1, j - 1)), j + 1)

Match(t, i, word) ==
    /\ i + Len(word) - 1 <= Len(t)
    /\ SubSeq(t, i, i + Len(word) - 1) = word

HasProp(props, k) == \E j \in 1..Len(props) : props[j].k = k

\* CreateDataProperty: a repeated name keeps its place and takes the new value.
SetProp(props, k, v) ==
    IF HasProp(props, k)
    THEN [j \in 1..Len(props) |-> IF props[j].k = k THEN Prop(k, v) ELSE props[j]]
    ELSE Append(props, Prop(k, v))

RECURSIVE ParseValue(_, _, _)
RECURSIVE ParseMembers(_, _, _, _)
RECURSIVE ParseElements(_, _, _, _)

\* i is at the first member's name (after "{" or ",").
ParseMembers(t, i, props, exact) ==
    LET i1  == SkipWs(t, i)
        key == IF At(t, i1) = QUOTE THEN ParseString(t, i1) ELSE Fail
        i2  == SkipWs(t, key.i)
        val == IF key.ok /\ At(t, i2) = ":" THEN ParseValue(t, i2 + 1, exact)
               ELSE Fail
        i3  == SkipWs(t, val.i)
        ps  == SetProp(props, key.v.s, val.v)
    IN IF ~val.ok THEN Fail
       ELSE IF At(t, i3) = "," THEN ParseMembers(t, i3 + 1, ps, exact)
       ELSE IF At(t, i3) = "}" THEN Ok(Obj(ps), i3 + 1)
       ELSE Fail

\* i is at the first element (after "[" or ",").
ParseElements(t, i, items, exact) ==
    LET val == ParseValue(t, i, exact)
        i1  == SkipWs(t, val.i)
        is  == Append(items, val.v)
    IN IF ~val.ok THEN Fail
       ELSE IF At(t, i1) = "," THEN ParseElements(t, i1 + 1, is, exact)
       ELSE IF At(t, i1) = "]" THEN Ok(Arr(is), i1 + 1)
       ELSE Fail

ParseValue(t, i, exact) ==
    LET i0 == SkipWs(t, i)
        c  == At(t, i0)
    IN IF c = "{"
       THEN IF At(t, SkipWs(t, i0 + 1)) = "}"
            THEN Ok(Obj(<<>>), SkipWs(t, i0 + 1) + 1)
            ELSE ParseMembers(t, i0 + 1, <<>>, exact)
       ELSE IF c = "["
       THEN IF At(t, SkipWs(t, i0 + 1)) = "]"
            THEN Ok(Arr(<<>>), SkipWs(t, i0 + 1) + 1)
            ELSE ParseElements(t, i0 + 1, <<>>, exact)
       ELSE IF c = QUOTE THEN ParseString(t, i0)
       ELSE IF c = "-" \/ IsDigit(c) THEN ParseNumber(t, i0, exact)
       ELSE IF Match(t, i0, <<"t", "r", "u", "e">>) THEN Ok(Bool(TRUE), i0 + 4)
       ELSE IF Match(t, i0, <<"f", "a", "l", "s", "e">>) THEN Ok(Bool(FALSE), i0 + 5)
       ELSE IF Match(t, i0, <<"n", "u", "l", "l">>) THEN Ok(Null, i0 + 4)
       ELSE Fail

\* The text read as JSON, its numbers converted as `exact` says; ok = FALSE is
\* JSON.parse's SyntaxError.
ParseText(text, exact) ==
    LET r == ParseValue(text, 1, exact)
    IN IF r.ok /\ SkipWs(text, r.i) = Len(text) + 1
       THEN [ok |-> TRUE, v |-> r.v]
       ELSE [ok |-> FALSE, v |-> Undefined]

\* JSON.parse(text).
JSONparse(text) == ParseText(text, FALSE)

\* ----------------------------------------------------------- JSON.stringify

RECURSIVE JSONstringify(_)
RECURSIVE StringifyProps(_, _)
RECURSIVE StringifyItems(_, _)

\* The members of an object; a property whose value is undefined is left out.
StringifyProps(props, first) ==
    IF props = <<>> THEN <<>>
    ELSE LET p == Head(props)
         IN IF p.v.ty = "undefined" THEN StringifyProps(Tail(props), first)
            ELSE (IF first THEN <<>> ELSE <<",">>)
                 \o <<QUOTE>> \o p.k \o <<QUOTE, ":">> \o JSONstringify(p.v)
                 \o StringifyProps(Tail(props), FALSE)

StringifyItems(items, first) ==
    IF items = <<>> THEN <<>>
    ELSE (IF first THEN <<>> ELSE <<",">>)
         \o JSONstringify(Head(items))
         \o StringifyItems(Tail(items), FALSE)

\* JSON.stringify(v) for a value other than undefined: a non-finite number and
\* an undefined array element are written null.
JSONstringify(v) ==
    CASE v.ty = "null"      -> <<"n", "u", "l", "l">>
      [] v.ty = "undefined" -> <<"n", "u", "l", "l">>
      [] v.ty = "inf"       -> <<"n", "u", "l", "l">>
      [] v.ty = "bool"      -> IF v.b THEN <<"t", "r", "u", "e">>
                               ELSE <<"f", "a", "l", "s", "e">>
      [] v.ty = "num"       -> NumberToString(v.m, v.e)
      [] v.ty = "str"       -> <<QUOTE>> \o v.s \o <<QUOTE>>
      [] v.ty = "arr"       -> <<"[">> \o StringifyItems(v.items, TRUE) \o <<"]">>
      [] v.ty = "obj"       -> <<"{">> \o StringifyProps(v.props, TRUE) \o <<"}">>

\* ------------------------------------------------------ reading a JS value

\* The pseudo-value of an expression that threw a TypeError.
Thrown == [ty |-> "thrown"]

\* ToBoolean.
Truthy(v) ==
    CASE v.ty \in {"undefined", "null", "thrown"} -> FALSE
      [] v.ty = "bool" -> v.b
      [] v.ty = "num"  -> v.m # 0
      [] v.ty = "str"  -> v.s # <<>>
      [] OTHER         -> TRUE

\* v.name: a TypeError on undefined and null, undefined where v has no such
\* property (the names read are never "length" or an index).
Get(v, name) ==
    CASE v.ty \in {"undefined", "null", "thrown"} -> Thrown
      [] v.ty = "obj" ->
            IF HasProp(v.props, name)
            THEN v.props[CHOOSE j \in 1..Len(v.props) : v.props[j].k = name].v
            ELSE Undefined
      [] OTHER -> Undefined

\* v[0].
Get0(v) ==
    CASE v.ty \in {"undefined", "null", "thrown"} -> Thrown
      [] v.ty = "arr" -> IF v.items = <<>> THEN Undefined ELSE v.items[1]
      [] v.ty = "str" -> IF v.s = <<>> THEN Undefined ELSE Str(<<v.s[1]>>)
      [] v.ty = "obj" -> Get(v, <<"0">>)
      [] OTHER -> Undefined

Kchoices == <<"c", "h", "o", "i", "c", "e", "s">>

Kmessage == <<"m", "e", "s", "s", "a", "g", "e">>

Kcontent == <<"c", "o", "n", "t", "e", "n", "t">>

Kreply == <<"r", "e", "p", "l", "y">>

Kerror == <<"e", "r", "r", "o", "r">>

Kmodel == <<"m", "o", "d", "e", "l">>

\* response.data.choices[0].message.content of the Express handler.
ExpressReply(data) == Get(Get(Get0(Get(data, Kchoices)), Kmessage), Kcontent)

\* data.choices && data.choices[0] && data.choices[0].message &&
\* data.choices[0].message.content of the raw-http handler: the first falsy
\* operand, or the last one.
HttpReply(data) ==
    LET a == Get(data, Kchoices)
        b == Get0(a)
        c == Get(b, Kmessage)
    IN IF a.ty = "thrown" THEN Thrown
       ELSE IF ~Truthy(a) THEN a
       ELSE IF ~Truthy(b) THEN b
       ELSE IF ~Truthy(c) THEN c
       ELSE Get(c, Kcontent)

\* ------------------------------------------------------- the HTTP response

CorsOrigin == <<"Access-Control-Allow-Origin", "*">>

JsonType == <<"Content-Type", "application/json">>

\* A ServerResponse nothing was written to: statusCode defaults to 200.
NewRes ==
    [statusCode |-> 200, headers |-> {}, headersSent |-> FALSE,
     head |-> {}, body |-> <<>>, ended |-> FALSE]

\* res.setHeader(name, value).
SetHeader(res, h) == [res EXCEPT !.headers = @ \cup {h}]

\* setCors(res).
SetCors(res) ==
    SetHeader(SetHeader(SetHeader(res, CorsOrigin),
        <<"Access-Control-Allow-Methods", "POST, OPTIONS">>),
        <<"Access-Control-Allow-Headers", "Content-Type">>)

\* res.writeHead(status, headers): the status line and the header block, the
\* headers set so far merged with the ones given, are written.
WriteHead(res, status, hs) ==
    [res EXCEPT !.statusCode = status, !.headers = @ \cup hs,
                !.headersSent = TRUE, !.head = res.headers \cup hs]

\* res.end(text): writes the head first when it was not written yet.
End(res, text) ==
    LET r == IF res.headersSent THEN res
             ELSE WriteHead(res, res.statusCode, {})
    IN [r EXCEPT !.body = text, !.ended = TRUE]

\* The Content-Type res.json of Express gives a body: res.send adds the
\* charset to the type.
JsonTypeUtf8 == <<"Content-Type", "application/json; charset=utf-8">>

\* res.status(code).json(value) of Express.
ResJson(res, status, value) ==
    End(WriteHead(res, status, {JsonTypeUtf8}), JSONstringify(value))

\* The body { error: message }.
ErrorBody(text) == Obj(<<Prop(Kerror, Str(text))>>)

MsgUnreachable == <<"Proxy failed to reach OpenAI">>

MsgInvalidResponse == <<"Invalid response from OpenAI">>

MsgInvalidBody == <<"Invalid request body">>

MsgNotFound == <<"Not found">>

\* ------------------------------------------------------------------ inputs

RECURSIVE SeqsUpTo(_, _)
\* The sequences over S of length at most n.
SeqsUpTo(S, n) ==
    IF n = 0 THEN {<<>>}
    ELSE LET shorter == SeqsUpTo(S, n - 1)
         IN shorter \cup {Append(q, c) : q \in shorter, c \in S}

\* The strings a caller or the upstream puts in a payload.
Strings == SeqsUpTo({"a", EACUTE}, MaxStr)

\* A chat payload.
Payload(s) == JSONstringify(Obj(<<Prop(Kmodel, Str(s))>>))

\* {"n":1,"n":2}
TextRepeatedName ==
    <<"{", QUOTE, "n", QUOTE, ":", "1", ",", QUOTE, "n", QUOTE, ":", "2", "}">>

\* {"n":1e400}
TextHugeNumber == <<"{", QUOTE, "n", QUOTE, ":", "1", "e", "4", "0", "0", "}">>

\* { "n":1.0}
TextSpaced == <<"{", " ", QUOTE, "n", QUOTE, ":", "1", ".", "0", "}">>

\* 1
TextScalar == <<"1">>

\* {
TextTruncated == <<"{">>

\* The request bodies callers send.
ReqTexts ==
    {Payload(s) : s \in Strings}
    \cup {TextRepeatedName, TextHugeNumber, TextSpaced, TextScalar,
          TextTruncated, <<>>}

\* A URL with the path /chat and a query string.
ChatWithQuery == "/chat?x=1"

\* The path of a URL: the URL up to its first "?".
Pathname(url) == IF url = ChatWithQuery THEN "/chat" ELSE url

NoBody == [method : {"OPTIONS", "GET"}, url : {"/chat", "/other"},
           ctype : {""}, text : {<<>>}]

\* The requests callers send: method, URL, Content-Type and body.
ReqInputs ==
    NoBody
    \cup [method : {"POST"}, url : {"/chat"},
          ctype : {"application/json"}, text : ReqTexts]
    \cup [method : {"POST"}, url : {"/chat", "/other"},
          ctype : {"text/plain"}, text : {Payload(<<"a">>), TextTruncated}]
    \cup [method : {"POST"}, url : {ChatWithQuery},
          ctype : {"application/json"}, text : {Payload(<<"a">>)}]
    \cup [method : {"GET"}, url : {ChatWithQuery}, ctype : {""}, text : {<<>>}]

\* A chat completion whose first choice has the message content c.
Completion(c) ==
    Obj(<<Prop(Kchoices, Arr(<<Obj(<<Prop(Kmessage,
        Obj(<<Prop(Kcontent, c)>>))>>)>>))>>)

\* The JSON values the upstream answers with.
UpValues ==
    {Completion(Str(c)) : c \in Strings}
    \cup {Completion(Null),
          Obj(<<Prop(Kchoices, Arr(<<Obj(<<Prop(Kmessage, Obj(<<>>))>>)>>))>>),
          Obj(<<Prop(Kchoices, Arr(<<Obj(<<>>)>>))>>),
          Obj(<<Prop(Kchoices, Arr(<<>>))>>),
          Obj(<<Prop(Kerror, Str(<<"a">>))>>),
          Null}

\* <
TextHtml == <<"<">>

\* The response bodies of the upstream: JSON texts, a non-JSON text, nothing.
UpTexts == {JSONstringify(v) : v \in UpValues} \cup {TextHtml, <<>>}

\* How the body of an upstream answer is delimited: by Content-Length or
\* chunks, or by the close of the connection.
Framings == {"length", "close"}

\* The upstream's answers: status, body and its framing.
UpInputs == [status : {200, 500}, text : UpTexts, framing : Framings]

\* err.message of a failed connection.
ErrMessages == {"read ECONNRESET", "getaddrinfo ENOTFOUND api.openai.com"}

\* What the environment may do: the requests, the upstream's answers, the
\* connection errors, in how many 'data' events the body of a request
\* (chunks) and of an upstream answer (upchunks) may arrive, and whether the
\* slots are requests to one server process (oneProcess) or to a process each.
World ==
    [reqs |-> ReqInputs, ups |-> UpInputs, errs |-> ErrMessages,
     chunks |-> MaxChunks, upchunks |-> MaxChunks, oneProcess |-> FALSE]

\* The world of two runs compared with each other: one chat request, bodies
\* that arrive whole, and the upstream answering 200 or 500 with a completion,
\* an error object or a page.
PairWorld ==
    [reqs |-> {[method |-> "POST", url |-> "/chat",
                ctype |-> "application/json", text |-> Payload(<<"a">>)]},
     ups |-> [status : {200, 500},
              text : {JSONstringify(Completion(Str(<<"a">>))),
                      JSONstringify(Obj(<<Prop(Kerror, Str(<<"a">>))>>)),
                      TextHtml},
              framing : Framings],
     errs |-> ErrMessages,
     chunks |-> 1, upchunks |-> 1, oneProcess |-> FALSE]

\* The world of two requests in flight in one server: two payloads that
\* arrive in one or two chunks, two completions that arrive whole.
ConcurrentWorld ==
    [reqs |-> [method : {"POST"}, url : {"/chat"},
               ctype : {"application/json"},
               text : {Payload(<<"a">>), Payload(<<>>)}],
     ups |-> [status : {200},
              text : {JSONstringify(Completion(Str(<<"a">>))),
                      JSONstringify(Completion(Str(<<>>)))},
              framing : Framings],
     errs |-> {"read ECONNRESET"},
     chunks |-> 2, upchunks |-> 1, oneProcess |-> TRUE]

\* ------------------------------------------------------------ configuration
\* A line of .env is a sequence of characters in which the name
\* OPENAI_API_KEY and a value such as sk-F are one unit each; the lines of the
\* model hold no quote, no inline comment and no "export".

KeyName == <<"OPENAI_API_KEY">>

IsSpace(c) == c = " "

RECURSIVE LeadingSpaces(_)
\* The number of white-space characters t begins with.
LeadingSpaces(t) ==
    IF t # <<>> /\ IsSpace(Head(t)) THEN 1 + LeadingSpaces(Tail(t)) ELSE 0

RECURSIVE TrailingSpaces(_)
\* The number of white-space characters t ends with.
TrailingSpaces(t) ==
    IF t # <<>> /\ IsSpace(t[Len(t)])
    THEN 1 + TrailingSpaces(SubSeq(t, 1, Len(t) - 1))
    ELSE 0

\* String.prototype.trim.
Trim(t) ==
    IF LeadingSpaces(t) = Len(t) THEN <<>>
    ELSE SubSeq(t, LeadingSpaces(t) + 1, Len(t) - TrailingSpaces(t))

\* The place of the first c in t, 0 when there is none.
IndexOf(t, c) ==
    IF \E j \in 1..Len(t) : t[j] = c
    THEN CHOOSE j \in 1..Len(t) : t[j] = c /\ \A m \in 1..(j - 1) : t[m] # c
    ELSE 0

NoMatch == [ok |-> FALSE, key |-> <<>>, value |-> <<>>]

\* line.match(/^\s*([^#=]+)\s*=\s*(.*)\s*$/) (line 43).  The key is what
\* stands before the first "=", without the leading white space but with the
\* trailing one ([^#=]+ is greedy and takes it); a "#" before the "=" lets the
\* match fail.  The value is the rest without its leading white space.
LoadEnvMatch(line) ==
    LET eq == IndexOf(line, "=")
        before == SubSeq(line, 1, eq - 1)
        lead == LeadingSpaces(before)
        rest == SubSeq(line, eq + 1, Len(line))
    IN IF eq = 0 \/ before = <<>> \/ IndexOf(before, "#") # 0
       THEN NoMatch
       ELSE [ok |-> TRUE,
             key |-> IF lead = Len(before) THEN <<before[Len(before)]>>
                     ELSE SubSeq(before, lead + 1, Len(before)),
             value |-> SubSeq(rest, LeadingSpaces(rest) + 1, Len(rest))]

\* process.env is a function from names to strings.
EnvGet(pe, key) == IF key \in DOMAIN pe THEN Str(pe[key]) ELSE Undefined

\* process.env[key] = value.
EnvPut(pe, key, value) ==
    [k \in DOMAIN pe \cup {key} |-> IF k = key THEN value ELSE pe[k]]

RECURSIVE LoadEnvLines(_, _)
\* envData.split(/\r?\n/).forEach(...) (lines 42-51): a matching line sets
\* its key unless process.env[key] is truthy.
LoadEnvLines(pe, lines) ==
    IF lines = <<>> THEN pe
    ELSE LET m == LoadEnvMatch(Head(lines))
         IN LoadEnvLines(IF m.ok /\ ~Truthy(EnvGet(pe, m.key))
                         THEN EnvPut(pe, m.key, m.value)
                         ELSE pe,
                         Tail(lines))

\* loadEnv() (lines 39-55): a file that cannot be read changes nothing.
LoadEnv(pe, file) ==
    IF file.exists THEN LoadEnvLines(pe, file.lines) ELSE pe

\* A line as dotenv reads it: comment lines are skipped, key and value are
\* trimmed.
DotenvMatch(line) ==
    LET t == Trim(line)
        eq == IndexOf(t, "=")
        key == Trim(SubSeq(t, 1, eq - 1))
    IN IF t = <<>> \/ Head(t) = "#" \/ eq = 0 \/ key = <<>>
          \/ IndexOf(key, " ") # 0
       THEN NoMatch
       ELSE [ok |-> TRUE, key |-> key,
             value |-> Trim(SubSeq(t, eq + 1, Len(t)))]

RECURSIVE DotenvParse(_, _)
\* dotenv's parse: of two lines with one key the later one stays.
DotenvParse(parsed, lines) ==
    IF lines = <<>> THEN parsed
    ELSE LET m == DotenvMatch(Head(lines))
         IN DotenvParse(IF m.ok THEN EnvPut(parsed, m.key, m.value)
                        ELSE parsed,
                        Tail(lines))

\* require('dotenv').config() (line 1): a parsed key is set unless
\* process.env has a property of that name; a missing file changes nothing.
DotenvConfig(pe, file) ==
    IF ~file.exists THEN pe
    ELSE LET parsed == DotenvParse(<<>>, file.lines)
         IN [k \in DOMAIN pe \cup DOMAIN parsed |->
                IF k \in DOMAIN pe THEN pe[k] ELSE parsed[k]]

\* process.env of a process started with OPENAI_API_KEY = v, or without it.
ShellEnv(v) ==
    IF v.ty = "undefined" THEN <<>> ELSE [k \in {KeyName} |-> v.s]

NoFile == [exists |-> FALSE, lines |-> <<>>]

\* The lines of a .env: plain, with spaces around "=", commented out, with an
\* empty value, with another value.
EnvLines ==
    {<<"OPENAI_API_KEY", "=", "sk-F">>,
     <<"OPENAI_API_KEY", " ", "=", " ", "sk-F">>,
     <<"#", "OPENAI_API_KEY", "=", "sk-F">>,
     <<"OPENAI_API_KEY", "=">>,
     <<"OPENAI_API_KEY", "=", "sk-G">>}

EnvFiles ==
    {NoFile} \cup {[exists |-> TRUE, lines |-> q] : q \in SeqsUpTo(EnvLines, MaxLines)}

\* OPENAI_API_KEY in the environment of a starting process: unset, empty, set.
ShellKeys == {Undefined, Str(<<>>), Str(<<"sk-A">>)}

\* The world of a server that has just started: one chat request and one
\* completion, bodies that arrive whole.
BootWorld ==
    [reqs |-> {[method |-> "POST", url |-> "/chat",
                ctype |-> "application/json", text |-> Payload(<<"a">>)]},
     ups |-> [status : {200},
              text : {JSONstringify(Completion(Str(<<"a">>)))},
              framing : Framings],
     errs |-> {"read ECONNRESET"},
     chunks |-> 1, upchunks |-> 1, oneProcess |-> FALSE]

\* ------------------------------------------------------------------- state

VARIABLES
    shell,   \* OPENAI_API_KEY in the environment the process was started with
    dotenv,  \* the file .env of the working directory: its lines, if it exists
    server,  \* what the process runs: "express" (lines 1-32 of src/index.js as
             \* a file of its own), "http" (lines 34-139 as a file of its own),
             \* "index.js" (the file as the repository holds it)
    env,     \* process.env.OPENAI_API_KEY
    pc,      \* "start", "loaded" (startup); "exited" (the module was rejected);
             \* "idle" (listening); "reading",
             \* "sent", "receiving", "stalled", "done" (the request)
    req,     \* the inbound request: method, url, ctype, text
    rx,      \* the request body on its way in: bytes left, 'data' events so far
    body,    \* raw-http: `body` (line 75); Express: req.body's source text
    calls,   \* the outbound calls made for the request, in order
    up,      \* what the upstream did: kind, status, text, err
    urx,     \* the upstream body on its way in: bytes left, 'data' events so far
    result,  \* raw-http: `result` (line 90)
    res,     \* the response to the caller
    log,     \* console.error lines: <<prefix, detail>>
    route    \* the branch that handled the request

\* The intake server of src/app.js: its requests j and its directory.
VARIABLES
    template, \* intake_form_template.pdf: "missing", "invalid", "valid"
    files,    \* the files the servers have written that exist: [name, by]
    outbox,   \* the e-mails and text messages handed to the carriers: [kind, by]
    ipc,      \* "idle", "reading", "loading", "done"
    ireq,     \* the inbound request: method, url, ctype, text
    ires,     \* the response to the caller
    ilog,     \* console.error lines
    iroute    \* the branch that handled the request

intakeVars == <<template, files, outbox, ipc, ireq, ires, ilog, iroute>>

\* The ingestion and query relay of the specification (sections 4.1, 4.3).
VARIABLES
    indexOn,  \* a vector index is configured
    records,  \* the records of the vector index, oldest first
    tmpdir,   \* the temporary files that exist
    job       \* the requests k: position, extracted text, calls made, response

ingestVars == <<indexOn, records, tmpdir, job>>

\* The pages of the front end (src/frontend/src/pages): the state of the
\* Chat component, of the Documents component and of the PDF form viewer.
VARIABLES
    message,       \* Chat: the text in the input
    chatHistory,   \* Chat: the messages shown, [role, content]
    isProcessing,  \* Chat: the typing indicator
    timers,        \* Chat: the pending setTimeout callbacks, oldest first
    searchTerm,    \* Documents: the text in the search box
    currentFolder, \* Documents: the folder shown
    formData,      \* form viewer: the value of every field
    aiSuggestions, \* form viewer: the suggestions not yet accepted
    isAIFilling,   \* form viewer: the button's busy flag
    viewer,        \* form viewer: the module it comes from, "Settings.tsx" (the
                   \* file as the repository holds it) or "PDFFormViewer"
                   \* (lines 272-618 as a file of their own), then "rejected"
                   \* or "mounted"; "none" when the page is not in use
    fillTimers     \* form viewer: the pending setTimeout callbacks

chatPageVars == <<message, chatHistory, isProcessing, timers>>

documentsVars == <<searchTerm, currentFolder>>

formVars == <<formData, aiSuggestions, isAIFilling, fillTimers, viewer>>

pageVars == <<chatPageVars, documentsVars, formVars>>

vars == <<pageVars, ingestVars, intakeVars, shell, dotenv, server, env, pc, req, rx, body, calls, up, urx, result, res, log, route>>

NoReq == [method |-> "", url |-> "", ctype |-> "", text |-> <<>>]

NoUp == [kind |-> "none", status |-> 0, text |-> <<>>, framing |-> "", err |-> ""]

NoRx == [rest |-> <<>>, n |-> 0]

\* No request has arrived on the slots S.
NoRequests(S) ==
    /\ req = [i \in S |-> NoReq]
    /\ rx = [i \in S |-> NoRx]
    /\ body = [i \in S |-> <<>>]
    /\ calls = [i \in S |-> <<>>]
    /\ up = [i \in S |-> NoUp]
    /\ urx = [i \in S |-> NoRx]
    /\ result = [i \in S |-> <<>>]
    /\ res = [i \in S |-> NewRes]
    /\ log = [i \in S |-> <<>>]
    /\ route = [i \in S |-> ""]

\* The intake server is not running: it has no request slot and no file.
NoIntake ==
    /\ template = "missing"
    /\ files = {}
    /\ outbox = {}
    /\ ipc = <<>>
    /\ ireq = <<>>
    /\ ires = <<>>
    /\ ilog = <<>>
    /\ iroute = <<>>

\* The ingestion and query relay is not running.
NoIngest ==
    /\ indexOn = FALSE
    /\ records = <<>>
    /\ tmpdir = {}
    /\ job = <<>>

\* The Chat page is not mounted.
NoChatPage ==
    /\ message = <<>>
    /\ chatHistory = <<>>
    /\ isProcessing = FALSE
    /\ timers = <<>>

\* The Documents page is not mounted.
NoDocuments ==
    /\ searchTerm = <<>>
    /\ currentFolder = ""

\* The form viewer is not mounted.
NoFormViewer ==
    /\ formData = <<>>
    /\ aiSuggestions = <<>>
    /\ isAIFilling = FALSE
    /\ fillTimers = 0
    /\ viewer = "none"

\* No page of the front end is mounted.
NoPages == NoChatPage /\ NoDocuments /\ NoFormViewer

\* The state after startup on the slots S of a variant run as a file of its
\* own: the configuration is loaded (lines 1 and 56) from the environment
\* alone, the server listens and no request has arrived.  The file as
\* committed never reaches this state (ModuleRejected).
InitOn(S, keys) ==
    /\ server \in [S -> {"express", "http"}]
    /\ env \in [S -> {Undefined} \cup {Str(<<k>>) : k \in keys}]
    /\ shell = env
    /\ dotenv = [i \in S |-> NoFile]
    /\ pc = [i \in S |-> "idle"]
    /\ NoRequests(S)

\* src/index.js as the repository holds it: the Express variant (lines 1-32)
\* followed by the raw-http variant (lines 34-139) in one module.
Committed == "index.js"

\* The state of a process about to be started: the file it runs, the
\* environment it was started with and the .env file of its directory.
InitBoot ==
    /\ server \in [{1} -> {"express", "http", Committed}]
    /\ shell \in [{1} -> ShellKeys]
    /\ dotenv \in [{1} -> EnvFiles]
    /\ env = shell
    /\ pc = [i \in {1} |-> "start"]
    /\ NoRequests({1})

\* node src/index.js with the file as committed: PORT is declared with const
\* at line 29 and again at line 58, the module is rejected when it is parsed
\* (SyntaxError: Identifier 'PORT' has already been declared) and the process
\* exits with status 1 before its first statement: no configuration is
\* loaded, nothing listens.
ModuleRejected(i) ==
    /\ pc[i] = "start"
    /\ server[i] = Committed
    /\ pc' = [pc EXCEPT ![i] = "exited"]
    /\ UNCHANGED <<pageVars, ingestVars, intakeVars, shell, dotenv, server, env, req, rx, body, calls, up, urx, result, res, log, route>>

\* The configuration is loaded without waiting for it: the statement returns
\* before process.env is set.  LoadConfig must not behave like this.
LoadConfigLate(i) ==
    /\ pc[i] = "start"
    /\ server[i] # Committed
    /\ pc' = [pc EXCEPT ![i] = "loaded"]
    /\ UNCHANGED <<pageVars, ingestVars, intakeVars, shell, dotenv, server, env, req, rx, body, calls, up, urx, result, res, log, route>>

\* require('dotenv').config() (line 1) and loadEnv() (line 56): synchronous
\* statements of the module, run before the server is created.  Each variant
\* runs as a file of its own; the file as committed runs no statement
\* (ModuleRejected).
LoadConfig(i) ==
    /\ pc[i] = "start"
    /\ server[i] # Committed
    /\ env' = [env EXCEPT ![i] =
                 EnvGet(IF server[i] = "express"
                        THEN DotenvConfig(ShellEnv(env[i]), dotenv[i])
                        ELSE LoadEnv(ShellEnv(env[i]), dotenv[i]),
                        KeyName)]
    /\ pc' = [pc EXCEPT ![i] = "loaded"]
    /\ UNCHANGED <<pageVars, ingestVars, intakeVars, shell, dotenv, server, req, rx, body, calls, up, urx, result, res, log, route>>

\* app.listen (line 30) and server.listen (line 137): the last statement of
\* a variant run as a file of its own; requests are accepted from here on.
\* The file as committed never comes here.
Listen(i) ==
    /\ pc[i] = "loaded"
    /\ server[i] # Committed
    /\ pc' = [pc EXCEPT ![i] = "idle"]
    /\ UNCHANGED <<pageVars, ingestVars, intakeVars, shell, dotenv, server, env, req, rx, body, calls, up, urx, result, res, log, route>>

\* `Bearer ${process.env.OPENAI_API_KEY}`: an unset variable reads "undefined".
Bearer(key) ==
    [scheme |-> "Bearer",
     token |-> IF key.ty = "undefined" THEN <<"undefined">> ELSE key.s]

\* The outbound POST to the chat-completion endpoint: its headers and the
\* bytes of its body.
Call(key, value) ==
    [url |-> "https://api.openai.com/v1/chat/completions",
     ctype |-> "application/json",
     auth |-> Bearer(key),
     wire |-> Utf8Encode(JSONstringify(value))]

Line(prefix, detail) == <<prefix, detail>>

\* ------------------------------------------------- the raw-http proxy

\* setCors after the head is written, where the header is too late for the
\* response. HttpError must not behave like this.
HttpErrorCorsLate(r, status, text) ==
    SetCors(End(WriteHead(r, status, {JsonType}),
                JSONstringify(ErrorBody(text))))

\* A preflight answered without setCors. HttpPreflight must not behave like
\* this.
HttpPreflightBare(r) == End([r EXCEPT !.statusCode = 204], <<>>)

\* { error: message } with the status, after setCors (lines 116-118, 125-127,
\* 131-133).
HttpError(r, status, text) ==
    End(WriteHead(SetCors(r), status, {JsonType}),
        JSONstringify(ErrorBody(text)))

\* The answer to a preflight (lines 68-70).
HttpPreflight(r) == End([SetCors(r) EXCEPT !.statusCode = 204], <<>>)

\* A handler that routes on the path of the URL, as Express does: POST
\* /chat?x=1 is read and forwarded. HttpRequest must not behave like this.
HttpRequestByPath(i, W) ==
    /\ server[i] = "http"
    /\ pc[i] = "idle"
    /\ \E in \in W.reqs :
        /\ req' = [req EXCEPT ![i] = in]
        /\ IF in.method = "OPTIONS"
           THEN /\ res' = [res EXCEPT ![i] = HttpPreflight(@)]
                /\ route' = [route EXCEPT ![i] = "preflight"]
                /\ pc' = [pc EXCEPT ![i] = "done"]
                /\ rx' = rx
           ELSE IF Pathname(in.url) = "/chat" /\ in.method = "POST"
           THEN /\ res' = res
                /\ route' = [route EXCEPT ![i] = "chat"]
                /\ pc' = [pc EXCEPT ![i] = "reading"]
                /\ rx' = [rx EXCEPT ![i] = [rest |-> Utf8Encode(in.text), n |-> 0]]
           ELSE /\ res' = [res EXCEPT ![i] = HttpError(@, 404, MsgNotFound)]
                /\ route' = [route EXCEPT ![i] = "notfound"]
                /\ pc' = [pc EXCEPT ![i] = "done"]
                /\ rx' = rx
    /\ UNCHANGED <<pageVars, ingestVars, intakeVars, shell, dotenv, server, env, body, calls, up, urx, result, log>>

\* The request handler (lines 66-76, 130-134) up to its return: a preflight
\* and an unknown route are answered at once, POST /chat starts to read.
HttpRequest(i, W) ==
    /\ server[i] = "http"
    /\ pc[i] = "idle"
    /\ \E in \in W.reqs :
        /\ req' = [req EXCEPT ![i] = in]
        /\ IF in.method = "OPTIONS"
           THEN /\ res' = [res EXCEPT ![i] = HttpPreflight(@)]
                /\ route' = [route EXCEPT ![i] = "preflight"]
                /\ pc' = [pc EXCEPT ![i] = "done"]
                /\ rx' = rx
           ELSE IF in.url = "/chat" /\ in.method = "POST"
           THEN /\ res' = res
                /\ route' = [route EXCEPT ![i] = "chat"]
                /\ pc' = [pc EXCEPT ![i] = "reading"]
                /\ rx' = [rx EXCEPT ![i] = [rest |-> Utf8Encode(in.text), n |-> 0]]
           ELSE /\ res' = [res EXCEPT ![i] = HttpError(@, 404, MsgNotFound)]
                /\ route' = [route EXCEPT ![i] = "notfound"]
                /\ pc' = [pc EXCEPT ![i] = "done"]
                /\ rx' = rx
    /\ UNCHANGED <<pageVars, ingestVars, intakeVars, shell, dotenv, server, env, body, calls, up, urx, result, log>>

\* The next k bytes of a body arrive as one chunk; the last of the allowed
\* 'data' events carries all that is left.
Chunks(box, limit) ==
    {k \in 1..Len(box.rest) : box.n + 1 < limit \/ k = Len(box.rest)}

Take(box, k) ==
    [rest |-> SubSeq(box.rest, k + 1, Len(box.rest)), n |-> box.n + 1]

\* req.on('data', chunk => (body += chunk)) (line 76): the chunk is a Buffer,
\* and += appends its own toString().
HttpReqData(i, W) ==
    /\ server[i] = "http"
    /\ pc[i] = "reading"
    /\ \E k \in Chunks(rx[i], W.chunks) :
        /\ body' = [body EXCEPT ![i] = @ \o Utf8Decode(SubSeq(rx[i].rest, 1, k))]
        /\ rx' = [rx EXCEPT ![i] = Take(@, k)]
    /\ UNCHANGED <<pageVars, ingestVars, intakeVars, shell, dotenv, server, env, pc, req, calls, up, urx, result, res, log, route>>

\* req.on('end') (lines 77-129): parse the body and send it on, or answer 400.
HttpReqEnd(i) ==
    /\ server[i] = "http"
    /\ pc[i] = "reading"
    /\ rx[i].rest = <<>>
    /\ \E requestData \in {JSONparse(body[i])} :
          IF requestData.ok
          THEN /\ calls' = [calls EXCEPT ![i] = Append(@, Call(env[i], requestData.v))]
               /\ pc' = [pc EXCEPT ![i] = "sent"]
               /\ UNCHANGED <<res, log>>
          ELSE /\ log' = [log EXCEPT ![i] =
                            Append(@, Line("Request parsing error:", "SyntaxError"))]
               /\ res' = [res EXCEPT ![i] = HttpError(@, 400, MsgInvalidBody)]
               /\ pc' = [pc EXCEPT ![i] = "done"]
               /\ calls' = calls
    /\ UNCHANGED <<pageVars, ingestVars, intakeVars, shell, dotenv, server, env, req, rx, body, up, urx, result, route>>

\* The response callback of https.request (lines 89-91): the upstream has
\* answered with a status and starts to send its body.
HttpUpResponse(i, W) ==
    /\ server[i] = "http"
    /\ pc[i] = "sent"
    /\ \E u \in W.ups :
        /\ up' = [up EXCEPT ![i] = [kind |-> "response", status |-> u.status,
                                    text |-> u.text, framing |-> u.framing,
                                    err |-> ""]]
        /\ urx' = [urx EXCEPT ![i] = [rest |-> Utf8Encode(u.text), n |-> 0]]
    /\ result' = [result EXCEPT ![i] = <<>>]
    /\ pc' = [pc EXCEPT ![i] = "receiving"]
    /\ UNCHANGED <<pageVars, ingestVars, intakeVars, shell, dotenv, server, env, req, rx, body, calls, res, log, route>>

\* openaiRes.on('data', d => (result += d)) (line 91).
HttpUpData(i, W) ==
    /\ server[i] = "http"
    /\ pc[i] = "receiving"
    /\ \E k \in Chunks(urx[i], W.upchunks) :
        /\ result' = [result EXCEPT ![i] = @ \o Utf8Decode(SubSeq(urx[i].rest, 1, k))]
        /\ urx' = [urx EXCEPT ![i] = Take(@, k)]
    /\ UNCHANGED <<pageVars, ingestVars, intakeVars, shell, dotenv, server, env, pc, req, rx, body, calls, up, res, log, route>>

\* What openaiRes.on('end') answers (lines 93-109) when the try block came
\* to `reply`, or threw.
HttpAnswer(r, reply) ==
    IF reply.ty = "thrown"
    THEN End(WriteHead(SetCors(r), 500, {JsonType}),
             JSONstringify(ErrorBody(MsgInvalidResponse)))
    ELSE End(WriteHead(SetCors(r), 200, {JsonType}),
             JSONstringify(Obj(<<Prop(Kreply, reply)>>)))

\* openaiRes.on('end') (lines 92-110).
HttpUpEnd(i) ==
    /\ server[i] = "http"
    /\ pc[i] = "receiving"
    /\ urx[i].rest = <<>>
    /\ \E data \in {JSONparse(result[i])} :
       \E reply \in {IF data.ok THEN HttpReply(data.v) ELSE Thrown} :
          /\ res' = [res EXCEPT ![i] = HttpAnswer(@, reply)]
          /\ log' = [log EXCEPT ![i] =
                       IF reply.ty = "thrown"
                       THEN Append(@, Line("Failed to parse OpenAI response:",
                                           IF data.ok THEN "TypeError"
                                           ELSE "SyntaxError"))
                       ELSE @]
    /\ pc' = [pc EXCEPT ![i] = "done"]
    /\ UNCHANGED <<pageVars, ingestVars, intakeVars, shell, dotenv, server, env, req, rx, body, calls, up, urx, result, route>>

\* openaiReq.on('error') (lines 114-119): the connection fails before the
\* upstream answers or while its body arrives.  When it fails in the middle
\* of a body that is delimited by the close of the connection, Node emits
\* 'end' on the response afterwards (HttpUpEndAfterError).
HttpUpError(i, W) ==
    /\ server[i] = "http"
    /\ pc[i] \in {"sent", "receiving"}
    /\ \E m \in W.errs :
        /\ up' = [up EXCEPT ![i] = [@ EXCEPT !.kind = "error", !.err = m]]
        /\ log' = [log EXCEPT ![i] = Append(@, Line("GPT Proxy Error:", m))]
    /\ res' = [res EXCEPT ![i] = HttpError(@, 500, MsgUnreachable)]
    /\ pc' = [pc EXCEPT ![i] = "done"]
    /\ UNCHANGED <<pageVars, ingestVars, intakeVars, shell, dotenv, server, env, req, rx, body, calls, urx, result, route>>

\* res.setHeader throws ERR_HTTP_HEADERS_SENT once the head is written.
SetHeaderThrows(r) == r.headersSent

\* The slots of the process that serves slot i.
ProcessOf(i, W) == IF W.oneProcess THEN DOMAIN pc ELSE {i}

\* An 'end' listener that is not stopped by the exception and answers once
\* more.  HttpUpEndAfterError must not behave like this.
HttpUpEndAfterErrorAnswers(i, W) ==
    /\ server[i] = "http"
    /\ pc[i] = "done"
    /\ up[i].kind = "error"
    /\ up[i].framing = "close"
    /\ res' = [res EXCEPT ![i] = HttpAnswer(@, Thrown)]
    /\ log' = [log EXCEPT ![i] =
                 Append(@, Line("Failed to parse OpenAI response:", "SyntaxError"))]
    /\ pc' = [j \in DOMAIN pc |-> IF j \in ProcessOf(i, W) THEN "exited" ELSE pc[j]]
    /\ UNCHANGED <<pageVars, ingestVars, intakeVars, shell, dotenv, server, env, req, rx, body, calls, up, urx, result, route>>

\* openaiRes.on('end') (lines 92-93) after the 'error' listener has answered:
\* the connection was reset in the middle of a body delimited by its close,
\* Node has emitted 'error' on the request and now emits 'end' on the
\* response.  setCors(res) at line 93 stands outside the try: res.setHeader
\* throws ERR_HTTP_HEADERS_SENT, nothing catches it and the process exits
\* with status 1.  Every request in flight in the process stays unanswered.
HttpUpEndAfterError(i, W) ==
    /\ server[i] = "http"
    /\ pc[i] = "done"
    /\ up[i].kind = "error"
    /\ up[i].framing = "close"
    /\ SetHeaderThrows(res[i])
    /\ log' = [log EXCEPT ![i] = Append(@, Line("Uncaught", "ERR_HTTP_HEADERS_SENT"))]
    /\ pc' = [j \in DOMAIN pc |-> IF j \in ProcessOf(i, W) THEN "exited" ELSE pc[j]]
    /\ UNCHANGED <<pageVars, ingestVars, intakeVars, shell, dotenv, server, env, req, rx, body, calls, up, urx, result, res, route>>

\* -------------------------------------------------- the Express proxy

HtmlType == <<"Content-Type", "text/html; charset=utf-8">>

\* The page Express's final handler answers with.
ErrorPage == <<"<", "!", "D", "O", "C", "T", "Y", "P", "E", " ", "h", "t", "m", "l", ">">>

\* cors() (line 7) on a preflight: the headers, 204 and no body; the request
\* goes no further.
CorsPreflight(r) ==
    End([SetHeader(SetHeader(SetHeader(r, CorsOrigin),
            <<"Access-Control-Allow-Methods", "GET,HEAD,PUT,PATCH,POST,DELETE">>),
            <<"Content-Length", "0">>) EXCEPT !.statusCode = 204], <<>>)

\* A request reaches the Express app (lines 6-8): cors() answers a preflight
\* and marks every other response; express.json() starts to read the body.
ExpressRequest(i, W) ==
    /\ server[i] = "express"
    /\ pc[i] = "idle"
    /\ \E in \in W.reqs :
        /\ req' = [req EXCEPT ![i] = in]
        /\ IF in.method = "OPTIONS"
           THEN /\ res' = [res EXCEPT ![i] = CorsPreflight(@)]
                /\ route' = [route EXCEPT ![i] = "preflight"]
                /\ pc' = [pc EXCEPT ![i] = "done"]
                /\ rx' = rx
           ELSE /\ res' = [res EXCEPT ![i] = SetHeader(@, CorsOrigin)]
                /\ route' = route
                /\ pc' = [pc EXCEPT ![i] = "reading"]
                /\ rx' = [rx EXCEPT ![i] = [rest |-> Utf8Encode(in.text), n |-> 0]]
    /\ UNCHANGED <<pageVars, ingestVars, intakeVars, shell, dotenv, server, env, body, calls, up, urx, result, log>>

\* express.json() (line 8) on the whole body: req.body, or the parser's error.
\* A request without a body, a Content-Type other than application/json and
\* an empty body all give {}; a text that does not start with { or [ is
\* refused (strict mode) before JSON.parse is tried.
ExpressJson(in, text) ==
    IF in.method # "POST" \/ in.ctype # "application/json" \/ text = <<>>
    THEN [ok |-> TRUE, v |-> Obj(<<>>)]
    ELSE IF At(text, SkipWs(text, 1)) \notin {"{", "["}
    THEN [ok |-> FALSE, v |-> Undefined]
    ELSE JSONparse(text)

\* The route app.post('/chat') (line 10).
ExpressRoute(in) == in.method = "POST" /\ Pathname(in.url) = "/chat"

\* The body has been read: express.json() fails with 400, or the request is
\* routed; the /chat handler calls axios.post (lines 10-21), any other request
\* gets the final handler's 404.
ExpressBodyRead(i) ==
    /\ server[i] = "express"
    /\ pc[i] = "reading"
    /\ \E text \in {Utf8Decode(rx[i].rest)} :
       \E parsed \in {ExpressJson(req[i], text)} :
          /\ body' = [body EXCEPT ![i] = text]
          /\ rx' = [rx EXCEPT ![i] = [rest |-> <<>>, n |-> 1]]
          /\ IF ~parsed.ok
             THEN /\ res' = [res EXCEPT ![i] = End(WriteHead(@, 400, {HtmlType}), ErrorPage)]
                  /\ log' = [log EXCEPT ![i] = Append(@, Line("SyntaxError:", "SyntaxError"))]
                  /\ route' = [route EXCEPT ![i] = "badbody"]
                  /\ pc' = [pc EXCEPT ![i] = "done"]
                  /\ calls' = calls
             ELSE IF ExpressRoute(req[i])
             THEN /\ calls' = [calls EXCEPT ![i] = Append(@, Call(env[i], parsed.v))]
                  /\ route' = [route EXCEPT ![i] = "chat"]
                  /\ pc' = [pc EXCEPT ![i] = "sent"]
                  /\ UNCHANGED <<res, log>>
             ELSE /\ res' = [res EXCEPT ![i] = End(WriteHead(@, 404, {HtmlType}), ErrorPage)]
                  /\ route' = [route EXCEPT ![i] = "notfound"]
                  /\ pc' = [pc EXCEPT ![i] = "done"]
                  /\ UNCHANGED <<calls, log>>
    /\ UNCHANGED <<pageVars, ingestVars, intakeVars, shell, dotenv, server, env, req, up, urx, result>>

\* response.data of axios: the body parsed as JSON, or the body itself when it
\* is empty or no JSON.
AxiosData(text) ==
    IF text # <<>> /\ JSONparse(text).ok THEN JSONparse(text).v ELSE Str(text)

\* The catch block (lines 23-26).
ExpressCatch(r) == ResJson(r, 500, ErrorBody(MsgUnreachable))

\* What the handler answers once axios.post has settled with a response
\* (lines 12-26): axios rejects a status outside 2xx, and reading the reply
\* may throw.
ExpressAnswer(r, status, reply) ==
    IF status < 200 \/ status > 299 \/ reply.ty = "thrown"
    THEN ExpressCatch(r)
    ELSE ResJson(r, 200, Obj(<<Prop(Kreply, reply)>>))

\* await axios.post(...) settles with the upstream's answer.
AxiosSettle(i, W) ==
    /\ server[i] = "express"
    /\ pc[i] = "sent"
    /\ \E u \in W.ups :
       \E reply \in {ExpressReply(AxiosData(u.text))} :
        /\ up' = [up EXCEPT ![i] = [kind |-> "response", status |-> u.status,
                                    text |-> u.text, framing |-> u.framing,
                                    err |-> ""]]
        /\ res' = [res EXCEPT ![i] = ExpressAnswer(@, u.status, reply)]
        /\ log' = [log EXCEPT ![i] =
                     IF u.status < 200 \/ u.status > 299
                     THEN Append(@, Line("GPT Proxy Error:",
                                         "Request failed with status code"))
                     ELSE IF reply.ty = "thrown"
                     THEN Append(@, Line("GPT Proxy Error:", "TypeError"))
                     ELSE @]
    /\ pc' = [pc EXCEPT ![i] = "done"]
    /\ UNCHANGED <<pageVars, ingestVars, intakeVars, shell, dotenv, server, env, req, rx, body, calls, urx, result, route>>

\* await axios.post(...) rejects: the connection failed.
AxiosError(i, W) ==
    /\ server[i] = "express"
    /\ pc[i] = "sent"
    /\ \E m \in W.errs :
        /\ up' = [up EXCEPT ![i] = [@ EXCEPT !.kind = "error", !.err = m]]
        /\ log' = [log EXCEPT ![i] = Append(@, Line("GPT Proxy Error:", m))]
    /\ res' = [res EXCEPT ![i] = ExpressCatch(@)]
    /\ pc' = [pc EXCEPT ![i] = "done"]
    /\ UNCHANGED <<pageVars, ingestVars, intakeVars, shell, dotenv, server, env, req, rx, body, calls, urx, result, route>>

\* The upstream holds the connection open and sends nothing more, before its
\* answer or in the middle of the body.  Neither https.request (lines 80-88)
\* nor axios.post (lines 12-21) is given a timeout, and no handler listens for
\* one: no event of the call is delivered from here on.
UpStall(i) ==
    /\ pc[i] \in {"sent", "receiving"}
    /\ pc' = [pc EXCEPT ![i] = "stalled"]
    /\ UNCHANGED <<pageVars, ingestVars, intakeVars, shell, dotenv, server, env, req, rx, body, calls, up, urx, result, res, log, route>>

\* ------------------------------------------ the intake server (src/app.js)

KFullName == <<"F", "u", "l", "l", " ", "N", "a", "m", "e">>

MsgServerError == <<"Server error">>

\* An intake form with one field filled in.
IntakeForm(s) == JSONstringify(Obj(<<Prop(KFullName, Str(s))>>))

\* Requests to the intake server.
IntakeReqs ==
    [method : {"OPTIONS", "GET"}, url : {"/submit-intake"}, ctype : {""}, text : {<<>>}]
    \cup [method : {"POST"}, url : {"/submit-intake"}, ctype : {"application/json"},
          text : {IntakeForm(s) : s \in Strings}
                 \cup {JSONstringify(Obj(<<>>)), TextScalar, TextTruncated}]
    \cup [method : {"POST"}, url : {"/other"}, ctype : {"application/json"},
          text : {JSONstringify(Obj(<<>>))}]

\* The intake server is listening with requests J; nothing has been written.
InitIntake(J) ==
    /\ template \in {"missing", "invalid", "valid"}
    /\ files = {}
    /\ outbox = {}
    /\ ipc = [j \in J |-> "idle"]
    /\ ireq = [j \in J |-> NoReq]
    /\ ires = [j \in J |-> NewRes]
    /\ ilog = [j \in J |-> <<>>]
    /\ iroute = [j \in J |-> ""]

\* A file written by the request of slot j of the intake server.
IntakeFile(name, j) == [name |-> name, by |-> [server |-> "intake", slot |-> j]]

\* The catch block (lines 84-87): the error is logged, the caller gets 500.
IntakeCatch(j, detail) ==
    /\ ilog' = [ilog EXCEPT ![j] = Append(@, Line("Error processing intake:", detail))]
    /\ ires' = [ires EXCEPT ![j] = ResJson(@, 500, ErrorBody(MsgServerError))]
    /\ ipc' = [ipc EXCEPT ![j] = "done"]

\* A request reaches the app (lines 17-19): cors() answers a preflight and
\* marks every other response; bodyParser.json() starts to read the body.
IntakeRequest(j) ==
    /\ ipc[j] = "idle"
    /\ \E in \in IntakeReqs :
        /\ ireq' = [ireq EXCEPT ![j] = in]
        /\ IF in.method = "OPTIONS"
           THEN /\ ires' = [ires EXCEPT ![j] = CorsPreflight(@)]
                /\ iroute' = [iroute EXCEPT ![j] = "preflight"]
                /\ ipc' = [ipc EXCEPT ![j] = "done"]
           ELSE /\ ires' = [ires EXCEPT ![j] = SetHeader(@, CorsOrigin)]
                /\ iroute' = iroute
                /\ ipc' = [ipc EXCEPT ![j] = "reading"]
    /\ UNCHANGED <<template, files, outbox, ilog>>
    /\ UNCHANGED <<pageVars, ingestVars, shell, dotenv, server, env, pc, req, rx, body, calls, up, urx, result, res, log, route>>

\* The route app.post('/submit-intake') (line 39).
IntakeRoute(in) == in.method = "POST" /\ in.url = "/submit-intake"

\* The body has been read: bodyParser.json() fails with 400, or the request
\* is routed.  The handler (lines 40-43) reads the template, which throws
\* when the file is missing, and awaits PDFDocument.load; any other request
\* gets the final handler's 404.
IntakeBodyRead(j) ==
    /\ ipc[j] = "reading"
    /\ \E parsed \in {ExpressJson(ireq[j], ireq[j].text)} :
          IF ~parsed.ok
          THEN /\ ires' = [ires EXCEPT ![j] = End(WriteHead(@, 400, {HtmlType}), ErrorPage)]
               /\ ilog' = [ilog EXCEPT ![j] = Append(@, Line("SyntaxError:", "SyntaxError"))]
               /\ iroute' = [iroute EXCEPT ![j] = "badbody"]
               /\ ipc' = [ipc EXCEPT ![j] = "done"]
          ELSE IF ~IntakeRoute(ireq[j])
          THEN /\ ires' = [ires EXCEPT ![j] = End(WriteHead(@, 404, {HtmlType}), ErrorPage)]
               /\ iroute' = [iroute EXCEPT ![j] = "notfound"]
               /\ ipc' = [ipc EXCEPT ![j] = "done"]
               /\ ilog' = ilog
          ELSE /\ iroute' = [iroute EXCEPT ![j] = "intake"]
               /\ IF template = "missing"
                  THEN IntakeCatch(j, "ENOENT")
                  ELSE /\ ipc' = [ipc EXCEPT ![j] = "loading"]
                       /\ UNCHANGED <<ires, ilog>>
    /\ UNCHANGED <<template, files, outbox, ireq>>
    /\ UNCHANGED <<pageVars, ingestVars, shell, dotenv, server, env, pc, req, rx, body, calls, up, urx, result, res, log, route>>

\* await PDFDocument.load(...) settles (lines 43-48).  Bytes that are no PDF
\* reject it.  Otherwise the first page is measured and the argument of
\* embedFont is evaluated: PDFDocument.PDFName is undefined, pdf-lib's
\* PDFDocument class has no such member, so PDFDocument.PDFName.of throws
\* a TypeError.  Both end in the catch block; lines 49-83, the write of
\* output.pdf at line 64, sendMail at line 67 and messages.create at line 77
\* among them, are never reached.
IntakeLoaded(j) ==
    /\ ipc[j] = "loading"
    /\ IF template = "invalid"
       THEN IntakeCatch(j, "PDFError")
       ELSE IntakeCatch(j, "TypeError")
    /\ UNCHANGED <<template, files, outbox, ireq, iroute>>
    /\ UNCHANGED <<pageVars, ingestVars, shell, dotenv, server, env, pc, req, rx, body, calls, up, urx, result, res, log, route>>

\* ------------------- the ingestion and query relay (specification 4.1, 4.3)
\* The repository holds no code for POST /upload and POST /query.  The steps
\* below are those the specification lists for the source: an upload runs
\* steps (1) to (6) of section 4.1 one after the other and a failing step
\* fails the request; a query runs the steps of section 4.3.

\* The fixed top-K of a query (section 4.3).
TopK == 5

chatVars == <<shell, dotenv, server, env, pc, req, rx, body, calls, up, urx, result, res, log, route>>

\* The request k has not arrived.
NoJob == [pc |-> "idle", kind |-> "", ocr |-> "", text |-> "", embedded |-> FALSE,
          embed |-> "", index |-> "", hits |-> <<>>,
          sent |-> <<>>, status |-> 0, reply |-> <<>>]

\* The generated name of the temporary file of request k, unique per request.
TmpName(k) == <<"upload", k>>

\* The vector the embedding endpoint gives for a text.
Embedding(text) == <<"vector", text>>

\* A record of the index: identifier, vector and the metadata map.
Record(id, text) == [id |-> id, vector |-> Embedding(text), metadata |-> [text |-> text]]

\* The index as it is before the first request, with n records.
Seeded(n) == [m \in 1..n |-> Record(<<"seed", m>>, "t")]

\* What the OCR process can come to: its exit code and standard output.
OcrRuns == [code : {0, 1}, stdout : {"", "t"}]

\* The extracted text: the standard output, and the empty text when the
\* process failed (section 4.1, guarantees).
ExtractedText(run) == IF run.code # 0 THEN "" ELSE run.stdout

\* How a call of the embedding endpoint with a text can settle: with a
\* vector, or as a failure, the endpoint unreachable or answering non-2xx
\* (section 4.1, error conditions); the empty text the endpoint may reject
\* (section 4.1, guarantees; section 7, subprocess errors).
EmbedOutcomes(text) ==
    {"vector", "failed"} \cup (IF text = "" THEN {"rejected"} ELSE {})

\* The question of a query, a non-empty string (section 4.3).
Question == "q"

\* The server-error response.
ServerError(j) == [j EXCEPT !.pc = "done", !.status = 500, !.reply = <<"error">>]

\* The relay is listening for the requests K; the index, when one is
\* configured, holds up to MaxIndexed records.
InitIngest(K) ==
    /\ indexOn \in BOOLEAN
    /\ records \in {Seeded(n) : n \in 0..MaxIndexed}
    /\ indexOn = FALSE => records = <<>>
    /\ tmpdir = {}
    /\ job = [k \in K |-> NoJob]

\* POST /upload, step (1): the upload is persisted to a temporary file.
UploadReceive(k) ==
    /\ job[k].pc = "idle"
    /\ tmpdir' = tmpdir \cup {TmpName(k)}
    /\ job' = [job EXCEPT ![k] = [@ EXCEPT !.pc = "persisted", !.kind = "upload"]]
    /\ UNCHANGED <<indexOn, records>>
    /\ UNCHANGED <<pageVars, chatVars, intakeVars>>

\* Step (2), first half: the OCR process is started with the temporary path.
\* A missing binary is a spawn error, surfaced as a server error.
UploadSpawn(k) ==
    /\ job[k].pc = "persisted"
    /\ \E found \in BOOLEAN :
        job' = [job EXCEPT ![k] =
                   IF found
                   THEN [@ EXCEPT !.pc = "ocr", !.sent = Append(@, "ocr")]
                   ELSE ServerError([@ EXCEPT !.sent = Append(@, "ocr"), !.ocr = "missing"])]
    /\ UNCHANGED <<indexOn, records, tmpdir>>
    /\ UNCHANGED <<pageVars, chatVars, intakeVars>>

\* Step (2), second half, and steps (3) and (4): the OCR process has exited
\* and its output is the extracted text, empty when it failed; without a
\* configured index the request fails, otherwise the embedding endpoint is
\* called with the text.
UploadOcrExit(k) ==
    /\ job[k].pc = "ocr"
    /\ \E run \in OcrRuns :
        job' = [job EXCEPT ![k] =
                   IF ~indexOn
                   THEN ServerError([@ EXCEPT !.ocr = "exited", !.text = ExtractedText(run)])
                   ELSE [@ EXCEPT !.pc = "embedding", !.ocr = "exited",
                                  !.text = ExtractedText(run), !.sent = Append(@, "embed")]]
    /\ UNCHANGED <<indexOn, records, tmpdir>>
    /\ UNCHANGED <<pageVars, chatVars, intakeVars>>

\* The embedding call of an upload has settled and the record is upserted
\* whatever the outcome.  UploadEmbedded must not behave like this.
UploadEmbeddedAnyway(k) ==
    /\ job[k].pc = "embedding"
    /\ job[k].kind = "upload"
    /\ \E out \in EmbedOutcomes(job[k].text) :
        job' = [job EXCEPT ![k] =
                   [@ EXCEPT !.pc = "upserting", !.embedded = (out = "vector"),
                             !.embed = out, !.sent = Append(@, "upsert")]]
    /\ UNCHANGED <<indexOn, records, tmpdir>>
    /\ UNCHANGED <<pageVars, chatVars, intakeVars>>

\* The embedding call of an upload has settled (step (4)): with a vector the
\* record is sent to the index (step (5)); an unreachable endpoint or a
\* non-2xx answer, the rejection of an empty text included, fails the
\* request with nothing upserted.
UploadEmbedded(k) ==
    /\ job[k].pc = "embedding"
    /\ job[k].kind = "upload"
    /\ \E out \in EmbedOutcomes(job[k].text) :
        job' = [job EXCEPT ![k] =
                   IF out = "vector"
                   THEN [@ EXCEPT !.pc = "upserting", !.embedded = TRUE, !.embed = out,
                                  !.sent = Append(@, "upsert")]
                   ELSE ServerError([@ EXCEPT !.embed = out])]
    /\ UNCHANGED <<indexOn, records, tmpdir>>
    /\ UNCHANGED <<pageVars, chatVars, intakeVars>>

\* The upsert has settled (step (5)): the index holds the record, keyed by
\* the temporary name, the temporary file is deleted (step (6)) and the
\* caller gets { success: true }; a failed upsert fails the request.
UploadUpserted(k) ==
    /\ job[k].pc = "upserting"
    /\ \E ok \in BOOLEAN :
        IF ok
        THEN /\ records' = Append(records, Record(TmpName(k), job[k].text))
             /\ tmpdir' = tmpdir \ {TmpName(k)}
             /\ job' = [job EXCEPT ![k] =
                           [@ EXCEPT !.pc = "done", !.status = 200, !.reply = <<"success">>]]
        ELSE /\ job' = [job EXCEPT ![k] = ServerError(@)]
             /\ UNCHANGED <<records, tmpdir>>
    /\ indexOn' = indexOn
    /\ UNCHANGED <<pageVars, chatVars, intakeVars>>

\* POST /query arrives and the question is embedded without a look at the
\* configuration.  QueryReceive must not behave like this.
QueryReceiveUnchecked(k) ==
    /\ job[k].pc = "idle"
    /\ job' = [job EXCEPT ![k] =
                  [@ EXCEPT !.pc = "embedding", !.kind = "query", !.sent = Append(@, "embed")]]
    /\ UNCHANGED <<indexOn, records, tmpdir>>
    /\ UNCHANGED <<pageVars, chatVars, intakeVars>>

\* POST /query arrives (section 4.3): without a configured index the request
\* fails at once, otherwise the question is sent to the embedding endpoint.
QueryReceive(k) ==
    /\ job[k].pc = "idle"
    /\ job' = [job EXCEPT ![k] =
                  IF ~indexOn
                  THEN ServerError([@ EXCEPT !.kind = "query"])
                  ELSE [@ EXCEPT !.pc = "embedding", !.kind = "query",
                                 !.sent = Append(@, "embed")]]
    /\ UNCHANGED <<indexOn, records, tmpdir>>
    /\ UNCHANGED <<pageVars, chatVars, intakeVars>>

\* The embedding call of a query has settled: with a vector the index is
\* queried, a failure fails the request.
QueryEmbedded(k) ==
    /\ job[k].pc = "embedding"
    /\ job[k].kind = "query"
    /\ \E out \in EmbedOutcomes(Question) :
        job' = [job EXCEPT ![k] =
                   IF out = "vector"
                   THEN [@ EXCEPT !.pc = "querying", !.embedded = TRUE, !.embed = out,
                                  !.sent = Append(@, "query")]
                   ELSE ServerError([@ EXCEPT !.embed = out])]
    /\ UNCHANGED <<indexOn, records, tmpdir>>
    /\ UNCHANGED <<pageVars, chatVars, intakeVars>>

\* The index answers with every record it holds.  IndexQuery must not behave
\* like this.
IndexQueryAll(rs, k) == rs

\* The answer of the index to a query for the top k: its k nearest records.
IndexQuery(rs, k) == IF Len(rs) <= k THEN rs ELSE SubSeq(rs, 1, k)

\* The index call has settled: the caller gets the match list as the index
\* returned it, an empty one included, or a server error when the call
\* failed.
QueryAnswered(k) ==
    /\ job[k].pc = "querying"
    /\ \E ok \in BOOLEAN :
        job' = [job EXCEPT ![k] =
                   IF ok
                   THEN [@ EXCEPT !.pc = "done", !.status = 200, !.index = "returned",
                                  !.hits = IndexQuery(records, TopK),
                                  !.reply = <<"matches", IndexQuery(records, TopK)>>]
                   ELSE ServerError([@ EXCEPT !.index = "failed"])]
    /\ UNCHANGED <<indexOn, records, tmpdir>>
    /\ UNCHANGED <<pageVars, chatVars, intakeVars>>

\* ------------------------------ the Chat page (src/frontend/src/pages/Chat.tsx)

UpperCase == <<"A", "B", "C", "D", "E", "F", "G", "H", "I", "J", "K", "L", "M",
               "N", "O", "P", "Q", "R", "S", "T", "U", "V", "W", "X", "Y", "Z">>

LowerCase == <<"a", "b", "c", "d", "e", "f", "g", "h", "i", "j", "k", "l", "m",
               "n", "o", "p", "q", "r", "s", "t", "u", "v", "w", "x", "y", "z">>

\* String.prototype.toLowerCase.
ToLowerCase(t) ==
    [n \in 1..Len(t) |->
        IF \E k \in 1..26 : UpperCase[k] = t[n]
        THEN LowerCase[CHOOSE k \in 1..26 : UpperCase[k] = t[n]]
        ELSE t[n]]

\* String.prototype.includes.
Includes(t, part) ==
    \E k \in 0..(Len(t) - Len(part)) : SubSeq(t, k + 1, k + Len(part)) = part

\* The servers are not running.
NoServers == InitOn({}, {}) /\ NoIntake /\ NoIngest

Entry(role, content) == [role |-> role, content |-> content]

\* The history the page starts with (lines 5-9).
InitialHistory ==
    << Entry("assistant", <<"Hello! I'm your Watkibot Law Assistant. How can I help you today? I can help you fill out forms, organize documents, or answer questions about your cases.">>),
       Entry("user", <<"I need help filling out the client intake form for the Smith case.">>),
       Entry("assistant", <<"I'd be happy to help you fill out the client intake form. I'll analyze the documents in the Smith case folder to extract the relevant information. Would you like me to open the form now and start filling it out?">>) >>

ReplyForm == <<"I can help with that form. I've analyzed the case documents and found several key details that can be auto-filled. Would you like me to show you a preview of the form with the information I've gathered?">>

ReplyLetter == <<"I can draft a letter using your firm's letterhead. What type of letter do you need? I can prepare demand letters, client communications, or court correspondence based on the case information.">>

ReplyDocument == <<"I've organized the case documents for you. There are 12 documents in this case, including 3 client statements, 2 police reports, and 4 medical records. Would you like me to summarize any specific document?">>

ReplyOther == <<"I understand. Based on the Smith case documents, I can help you with form filling, document organization, or drafting correspondence. What specific aspect would you like assistance with?">>

\* The mock reply to a message (lines 31-41).
AiResponse(m) ==
    IF Includes(ToLowerCase(m), <<"f", "o", "r", "m">>) THEN ReplyForm
    ELSE IF Includes(ToLowerCase(m), <<"l", "e", "t", "t", "e", "r">>) THEN ReplyLetter
    ELSE IF Includes(ToLowerCase(m), <<"d", "o", "c", "u", "m", "e", "n", "t">>) \/ Includes(ToLowerCase(m), <<"f", "i", "l", "e">>)
    THEN ReplyDocument
    ELSE ReplyOther

\* What the user types into the input.
MessageTexts == {<<>>, <<" ">>, <<"F", "o", "r", "m">>, <<"l", "e", "t", "t", "e", "r">>, <<"f", "i", "l", "e">>, <<"h", "i">>}

\* The Chat component is mounted (lines 4-11).
InitChatPage ==
    /\ NoServers
    /\ message = <<>>
    /\ chatHistory = InitialHistory
    /\ isProcessing = FALSE
    /\ timers = <<>>
    /\ NoDocuments
    /\ NoFormViewer

\* onChange of the textarea (line 123): setMessage(e.target.value).
ChatType ==
    /\ \E text \in MessageTexts : message' = text
    /\ UNCHANGED <<chatHistory, isProcessing, timers>>
    /\ UNCHANGED <<documentsVars, formVars>>
    /\ UNCHANGED <<ingestVars, chatVars, intakeVars>>

\* handleSendMessage (lines 14-51) up to its return: the message is added to
\* the history of this render, the input is cleared and a timer is started
\* whose callback keeps newChatHistory and message of this call.
HandleSendMessage ==
    IF Trim(message) = <<>>
    THEN UNCHANGED <<message, chatHistory, isProcessing, timers>>
    ELSE \E newChatHistory \in {Append(chatHistory, Entry("user", message))} :
            /\ chatHistory' = newChatHistory
            /\ message' = <<>>
            /\ isProcessing' = TRUE
            /\ timers' = Append(timers, [newChatHistory |-> newChatHistory, message |-> message])

\* The user has room for one more message: replies come after 1500 ms.
ChatRoom == Len(timers) < MaxPending /\ Len(chatHistory) < MaxHistory

\* A click on Send (lines 127-133); the button is disabled while a reply is
\* pending or the input is blank.
ChatClickSend ==
    /\ ChatRoom
    /\ ~(isProcessing \/ Trim(message) = <<>>)
    /\ HandleSendMessage
    /\ UNCHANGED <<documentsVars, formVars>>
    /\ UNCHANGED <<ingestVars, chatVars, intakeVars>>

\* Enter without Shift in the textarea (lines 54-59, 124).
ChatPressEnter ==
    /\ ChatRoom
    /\ HandleSendMessage
    /\ UNCHANGED <<documentsVars, formVars>>
    /\ UNCHANGED <<ingestVars, chatVars, intakeVars>>

\* The callback of the oldest timer runs (lines 29-50): the history becomes
\* the newChatHistory of its call with the reply added.
ChatTimer ==
    /\ timers # <<>>
    /\ chatHistory' = Append(Head(timers).newChatHistory,
                             Entry("assistant", AiResponse(Head(timers).message)))
    /\ isProcessing' = FALSE
    /\ timers' = Tail(timers)
    /\ message' = message
    /\ UNCHANGED <<documentsVars, formVars>>
    /\ UNCHANGED <<ingestVars, chatVars, intakeVars>>

\* ------------------------ the Documents page (src/frontend/src/pages/Documents.tsx)

Folder(id, name, parentId) == [id |-> id, name |-> name, parentId |-> parentId]

\* The folders (lines 8-13).
Folders ==
    << Folder("folder1", <<"C", "l", "i", "e", "n", "t", " ", "D", "o", "c", "u", "m", "e", "n", "t", "s">>, "root"),
       Folder("folder2", <<"C", "o", "u", "r", "t", " ", "F", "i", "l", "i", "n", "g", "s">>, "root"),
       Folder("folder3", <<"E", "v", "i", "d", "e", "n", "c", "e">>, "root"),
       Folder("folder4", <<"C", "o", "n", "t", "r", "a", "c", "t", "s">>, "folder1") >>

\* folders.filter(...) of lines 25-28: the folders listed on the page.
CurrentFolders ==
    {n \in 1..Len(Folders) :
        /\ Folders[n].parentId = currentFolder
        /\ Includes(ToLowerCase(Folders[n].name), ToLowerCase(searchTerm))}

\* What the user types into the search box.
SearchTerms == SeqsUpTo({"c", "o", "E"}, MaxTerm)

\* The Documents component is mounted (lines 4-5).
InitDocuments ==
    /\ NoServers
    /\ NoChatPage
    /\ searchTerm = <<>>
    /\ currentFolder = "root"
    /\ NoFormViewer

\* onChange of the search box (line 75): setSearchTerm(e.target.value).
DocsSearch ==
    /\ \E term \in SearchTerms : searchTerm' = term
    /\ currentFolder' = currentFolder
    /\ UNCHANGED <<chatPageVars, formVars>>
    /\ UNCHANGED <<ingestVars, chatVars, intakeVars>>

\* navigateToFolder (lines 35-37) from a click on a listed folder (line 101).
NavigateToFolder ==
    /\ \E n \in CurrentFolders : currentFolder' = Folders[n].id
    /\ searchTerm' = searchTerm
    /\ UNCHANGED <<chatPageVars, formVars>>
    /\ UNCHANGED <<ingestVars, chatVars, intakeVars>>

\* A lookup of the current folder by its name instead of its id: nothing is
\* found and the page stays where it is. ParentOf must not behave like this.
ParentOfByName(cur) ==
    IF \E n \in 1..Len(Folders) : Folders[n].name = cur
    THEN Folders[CHOOSE n \in 1..Len(Folders) :
                    /\ Folders[n].name = cur
                    /\ \A k \in 1..(n - 1) : Folders[k].name # cur].parentId
    ELSE cur

\* The folder navigateToParent (lines 40-45) sets when the current folder is
\* cur: the parent of the first folder with that id, or cur when there is none.
ParentOf(cur) ==
    IF \E n \in 1..Len(Folders) : Folders[n].id = cur
    THEN Folders[CHOOSE n \in 1..Len(Folders) :
                    /\ Folders[n].id = cur
                    /\ \A k \in 1..(n - 1) : Folders[k].id # cur].parentId
    ELSE cur

\* navigateToParent from a click on the back button, which is rendered when
\* the current folder is not root (lines 59-61).
NavigateToParent ==
    /\ currentFolder # "root"
    /\ currentFolder' = ParentOf(currentFolder)
    /\ searchTerm' = searchTerm
    /\ UNCHANGED <<chatPageVars, formVars>>
    /\ UNCHANGED <<ingestVars, chatVars, intakeVars>>

\* --------------------- the form viewer (src/frontend/src/pages/Settings.tsx)

\* The form the page starts with (lines 275-291).
InitialFormData ==
    [clientName |-> "John Smith",
     caseNumber |-> "SMI-2025-0042",
     dateOfBirth |-> "05/12/1980",
     address |-> "123 Main Street, Anytown, USA",
     phoneNumber |-> "(555) 123-4567",
     email |-> "john.smith@example.com",
     occupation |-> "Software Engineer",
     employerName |-> "Tech Solutions Inc.",
     incidentDate |-> "04/15/2025",
     incidentDescription |-> "Automobile accident at intersection of Main St. and 5th Ave.",
     injuries |-> "Whiplash, minor contusions",
     witnesses |-> "Jane Doe, Officer Michael Johnson",
     insuranceProvider |-> "AllState Insurance",
     policyNumber |-> "AS-987654321",
     additionalNotes |-> ""]

\* The suggestions of the mock (lines 303-318).
Suggestions ==
    [clientName |-> "Jonathan A. Smith",
     dateOfBirth |-> "05/12/1980",
     address |-> "123 Main Street, Apt 4B, Anytown, CA 94123",
     phoneNumber |-> "(555) 123-4567",
     email |-> "jonathan.smith@example.com",
     occupation |-> "Senior Software Engineer",
     employerName |-> "Tech Solutions Inc.",
     incidentDate |-> "04/15/2025",
     incidentDescription |-> "Automobile accident at intersection of Main St. and 5th Ave. Client was stopped at red light when rear-ended by another vehicle.",
     injuries |-> "Whiplash, minor contusions to left arm, headaches",
     witnesses |-> "Jane Doe (pedestrian), Officer Michael Johnson (Badge #4392)",
     insuranceProvider |-> "AllState Insurance",
     policyNumber |-> "AS-987654321-01",
     additionalNotes |-> "Client has previous back injury from 2022. Medical records requested from Dr. Williams."]

\* The fields with an input on the page (lines 376-488).
InputFields == {"clientName", "caseNumber", "dateOfBirth", "address",
                "phoneNumber", "email", "incidentDescription"}

\* The fields whose suggestion is shown with an Accept button (lines 382-500).
AcceptFields == {"clientName", "dateOfBirth", "address", "incidentDescription"}

\* What the user types into an input.
InputValues == {"x"}

\* The module the form viewer is taken from is about to be loaded: nothing
\* is mounted yet.
InitFormViewer ==
    /\ NoServers
    /\ NoChatPage
    /\ NoDocuments
    /\ formData = <<>>
    /\ aiSuggestions = <<>>
    /\ isAIFilling = FALSE
    /\ fillTimers = 0
    /\ viewer \in {"Settings.tsx", "PDFFormViewer"}

\* Settings.tsx as committed holds two modules one after the other: React and
\* useState are imported at line 1 and again at line 272, and there are two
\* default exports (lines 270, 618).  The module is rejected when it is
\* parsed and PDFFormViewer is never mounted from it.
FormModuleRejected ==
    /\ viewer = "Settings.tsx"
    /\ viewer' = "rejected"
    /\ UNCHANGED <<formData, aiSuggestions, isAIFilling, fillTimers>>
    /\ UNCHANGED <<chatPageVars, documentsVars>>
    /\ UNCHANGED <<ingestVars, chatVars, intakeVars>>

\* PDFFormViewer, lines 272-618 as a file of their own, is mounted (lines
\* 275-295).
FormMount ==
    /\ viewer = "PDFFormViewer"
    /\ viewer' = "mounted"
    /\ formData' = InitialFormData
    /\ aiSuggestions' = <<>>
    /\ isAIFilling' = FALSE
    /\ fillTimers' = 0
    /\ UNCHANGED <<chatPageVars, documentsVars>>
    /\ UNCHANGED <<ingestVars, chatVars, intakeVars>>

\* handleAIFill (lines 298-323) up to its return, from a click on the button,
\* which is disabled while isAIFilling (lines 353-354).
FormAIFill ==
    /\ viewer = "mounted"
    /\ ~isAIFilling
    /\ isAIFilling' = TRUE
    /\ fillTimers' = fillTimers + 1
    /\ UNCHANGED <<formData, aiSuggestions, viewer>>
    /\ UNCHANGED <<chatPageVars, documentsVars>>
    /\ UNCHANGED <<ingestVars, chatVars, intakeVars>>

\* The callback of handleAIFill's timer (lines 302-322).
FormFillTimer ==
    /\ fillTimers > 0
    /\ aiSuggestions' = Suggestions
    /\ isAIFilling' = FALSE
    /\ fillTimers' = fillTimers - 1
    /\ formData' = formData
    /\ viewer' = viewer
    /\ UNCHANGED <<chatPageVars, documentsVars>>
    /\ UNCHANGED <<ingestVars, chatVars, intakeVars>>

\* An accept that drops every pending suggestion. AcceptSuggestion must not
\* behave like this.
AcceptSuggestionAll(field) ==
    /\ formData' = [formData EXCEPT ![field] = aiSuggestions[field]]
    /\ aiSuggestions' = <<>>

\* acceptSuggestion (lines 326-336).
AcceptSuggestion(field) ==
    /\ formData' = [formData EXCEPT ![field] = aiSuggestions[field]]
    /\ aiSuggestions' = [f \in DOMAIN aiSuggestions \ {field} |-> aiSuggestions[f]]

\* A click on an Accept button, which is rendered while the field has a
\* suggestion (lines 382-387, 420-425, 445-450, 495-500).
FormAccept ==
    /\ viewer = "mounted"
    /\ \E field \in AcceptFields :
        /\ field \in DOMAIN aiSuggestions
        /\ aiSuggestions[field] # ""
        /\ AcceptSuggestion(field)
    /\ UNCHANGED <<isAIFilling, fillTimers, viewer>>
    /\ UNCHANGED <<chatPageVars, documentsVars>>
    /\ UNCHANGED <<ingestVars, chatVars, intakeVars>>

\* handleInputChange (lines 339-345) from an input of the page.
FormInput ==
    /\ viewer = "mounted"
    /\ \E name \in InputFields, value \in InputValues :
        formData' = [formData EXCEPT ![name] = value]
    /\ UNCHANGED <<aiSuggestions, isAIFilling, fillTimers, viewer>>
    /\ UNCHANGED <<chatPageVars, documentsVars>>
    /\ UNCHANGED <<ingestVars, chatVars, intakeVars>>

\* ----------------------------------------------------------- specifications

\* One step of either server in the world W.
NextIn(W) ==
    \/ \E i \in DOMAIN pc : HttpRequest(i, W)
    \/ \E i \in DOMAIN pc : HttpReqData(i, W)
    \/ \E i \in DOMAIN pc : HttpReqEnd(i)
    \/ \E i \in DOMAIN pc : HttpUpResponse(i, W)
    \/ \E i \in DOMAIN pc : HttpUpData(i, W)
    \/ \E i \in DOMAIN pc : HttpUpEnd(i)
    \/ \E i \in DOMAIN pc : HttpUpError(i, W)
    \/ \E i \in DOMAIN pc : HttpUpEndAfterError(i, W)
    \/ \E i \in DOMAIN pc : ExpressRequest(i, W)
    \/ \E i \in DOMAIN pc : ExpressBodyRead(i)
    \/ \E i \in DOMAIN pc : AxiosSettle(i, W)
    \/ \E i \in DOMAIN pc : AxiosError(i, W)
    \/ \E i \in DOMAIN pc : UpStall(i)

Init == InitOn({1}, {"sk-A"}) /\ NoIntake /\ NoIngest /\ NoPages

Next == NextIn(World)

\* One request to one server, every input of World.
Spec == Init /\ [][Next]_vars

InitPair == InitOn({1, 2}, {"sk-A", "sk-B"}) /\ NoIntake /\ NoIngest /\ NoPages

NextPair == NextIn(PairWorld)

\* Two runs side by side, each with its own server, configuration and
\* upstream, in any interleaving.
SpecPair == InitPair /\ [][NextPair]_vars

InitStartup == InitBoot /\ NoIntake /\ NoIngest /\ NoPages

NextBoot ==
    \/ \E i \in DOMAIN pc : ModuleRejected(i)
    \/ \E i \in DOMAIN pc : LoadConfig(i)
    \/ \E i \in DOMAIN pc : Listen(i)
    \/ NextIn(BootWorld)

\* A server from its first statement on: startup, then a request.
SpecBoot == InitStartup /\ [][NextBoot]_vars

InitConcurrent ==
    /\ InitOn({1, 2}, {"sk-A"})
    /\ server[1] = server[2]
    /\ env[1] = env[2]
    /\ NoIntake
    /\ NoIngest
    /\ NoPages

NextConcurrent == NextIn(ConcurrentWorld)

\* Two requests in flight in one server process, their events in any
\* interleaving.
SpecConcurrent == InitConcurrent /\ [][NextConcurrent]_vars

InitServers == InitOn({1}, {"sk-A"}) /\ InitIntake({1, 2}) /\ NoIngest /\ NoPages

NextIntake ==
    \/ \E j \in DOMAIN ipc : IntakeRequest(j)
    \/ \E j \in DOMAIN ipc : IntakeBodyRead(j)
    \/ \E j \in DOMAIN ipc : IntakeLoaded(j)
    \/ NextIn(BootWorld)

\* The three servers of the repository side by side: one chat request and two
\* intake requests, in any interleaving.
SpecIntake == InitServers /\ [][NextIntake]_vars

InitRelay == InitOn({}, {}) /\ NoIntake /\ InitIngest({1, 2}) /\ NoPages

NextIngest ==
    \/ \E k \in DOMAIN job : UploadReceive(k)
    \/ \E k \in DOMAIN job : UploadSpawn(k)
    \/ \E k \in DOMAIN job : UploadOcrExit(k)
    \/ \E k \in DOMAIN job : UploadEmbedded(k)
    \/ \E k \in DOMAIN job : UploadUpserted(k)
    \/ \E k \in DOMAIN job : QueryReceive(k)
    \/ \E k \in DOMAIN job : QueryEmbedded(k)
    \/ \E k \in DOMAIN job : QueryAnswered(k)

\* Two requests to the ingestion and query relay, in any interleaving.
SpecIngest == InitRelay /\ [][NextIngest]_vars

NextChatPage ==
    \/ ChatType
    \/ ChatClickSend
    \/ ChatPressEnter
    \/ ChatTimer

\* The Chat page: typing, sending and the replies, in any order.
SpecChatPage == InitChatPage /\ [][NextChatPage]_vars

NextDocuments ==
    \/ DocsSearch
    \/ NavigateToFolder
    \/ NavigateToParent

\* The Documents page: searching and navigating, in any order.
SpecDocuments == InitDocuments /\ [][NextDocuments]_vars

NextFormViewer ==
    \/ FormModuleRejected
    \/ FormMount
    \/ FormAIFill
    \/ FormFillTimer
    \/ FormAccept
    \/ FormInput

\* The form viewer: filling, accepting and editing, in any order.
SpecFormViewer == InitFormViewer /\ [][NextFormViewer]_vars

\* --------------------------------------------------------------- properties

Slots == DOMAIN pc

\* The request of slot i has been answered.
Done(i) == pc[i] = "done"

\* The request of slot i is a POST to /chat.
ChatRequest(i) == req[i].method = "POST" /\ req[i].url = "/chat"

\* A chat request whose body is a JSON object sent as application/json.
ValidPayload(i) ==
    /\ ChatRequest(i)
    /\ req[i].ctype = "application/json"
    /\ JSONparse(req[i].text).ok
    /\ JSONparse(req[i].text).v.ty = "obj"

\* The server of slot i has a key configured.
Configured(i) == env[i].ty = "str"

\* The upstream answered the call of slot i with the status.
Answered(i, status) == up[i].kind = "response" /\ up[i].status = status

\* The text of { reply: c }.
ReplyBody(c) == JSONstringify(Obj(<<Prop(Kreply, c)>>))

\* The texts of the two fixed error messages about the upstream.
GenericBodies ==
    {JSONstringify(ErrorBody(MsgUnreachable)),
     JSONstringify(ErrorBody(MsgInvalidResponse))}

\* The JSON value v has a first choice with a message.
UsableChoice(v) ==
    Get(Get0(Get(v, Kchoices)), Kmessage).ty \notin {"undefined", "thrown"}

\* The upstream's body is a JSON object without a usable first choice.
NoUsableChoice(text) ==
    /\ JSONparse(text).ok
    /\ JSONparse(text).v.ty = "obj"
    /\ ~UsableChoice(JSONparse(text).v)

\* The call of slot i has failed: the connection broke, the status is not
\* 2xx, or the body is no completion.
UpstreamFailure(i) ==
    \/ up[i].kind = "error"
    \/ /\ up[i].kind = "response"
       /\ \/ up[i].status \notin 200..299
          \/ ~JSONparse(up[i].text).ok
          \/ NoUsableChoice(up[i].text)

\* The call of slot i has failed with the connection or the status alone.
UpstreamRefused(i) ==
    \/ up[i].kind = "error"
    \/ up[i].kind = "response" /\ up[i].status \notin 200..299

\* C1: for every POST /chat with a valid payload, on either server with a key
\* configured, when the upstream answers 200 with a completion whose first
\* choice has the message content c, the caller gets status 200 and the body
\* {"reply": c}, c unchanged.
C1_ReplyIsFirstChoiceContent ==
    \A i \in Slots : \A c \in Strings :
        (/\ Done(i)
         /\ Configured(i)
         /\ ValidPayload(i)
         /\ Answered(i, 200)
         /\ up[i].text = JSONstringify(Completion(Str(c))))
        => /\ res[i].statusCode = 200
           /\ res[i].body = ReplyBody(Str(c))

\* C2: for every POST /chat with a valid payload, on either server, when the
\* upstream answers 500 with any body, the caller gets status 500 and one of
\* the fixed error bodies, never a 2xx and nothing of the upstream's body.
C2_Upstream500IsGeneric500 ==
    \A i \in Slots :
        (Done(i) /\ Configured(i) /\ ValidPayload(i) /\ Answered(i, 500))
        => /\ res[i].statusCode = 500
           /\ res[i].body \in GenericBodies

\* C3: for every POST /chat with a valid payload, when the upstream answers
\* 200 with a JSON object that has no usable first choice (choices missing,
\* empty, or without message), the caller gets a complete response that is no
\* success and is not the error of an unreachable upstream.
C3_NoChoiceIsDistinctError ==
    \A i \in Slots :
        (/\ Done(i)
         /\ Configured(i)
         /\ ValidPayload(i)
         /\ Answered(i, 200)
         /\ NoUsableChoice(up[i].text))
        => /\ res[i].ended
           /\ res[i].statusCode \notin 200..299
           /\ res[i].body # JSONstringify(ErrorBody(MsgUnreachable))

\* C4: for every POST /chat whose body is no JSON text, no upstream call is
\* made and the caller gets a 4xx status.
C4_UnparsableBodyIsClientError ==
    \A i \in Slots :
        (ChatRequest(i) /\ ~JSONparse(req[i].text).ok)
        => /\ calls[i] = <<>>
           /\ Done(i) => res[i].statusCode \in 400..499

\* C5: for every POST /chat with a parsable body, the JSON value of the body
\* sent upstream is the JSON value of the body received, read exactly, and
\* the call carries the configured credential.
C5_ForwardedPayloadIsReceived ==
    \A i \in Slots :
        (ChatRequest(i) /\ JSONparse(req[i].text).ok /\ calls[i] # <<>>)
        => /\ Len(calls[i]) = 1
           /\ ParseText(Utf8Decode(calls[i][1].wire), TRUE)
                = ParseText(req[i].text, TRUE)
           /\ Configured(i) => calls[i][1].auth = Bearer(env[i])

\* C6: when OPENAI_API_KEY is not configured, no POST /chat makes an upstream
\* call, and each is answered with an error status.
C6_NoKeyNoCall ==
    \A i \in Slots :
        (env[i] = Undefined /\ ChatRequest(i))
        => /\ calls[i] = <<>>
           /\ Done(i) => res[i].statusCode >= 400

\* C7: two runs of the same POST /chat on the same server that both end in
\* the same kind of upstream failure (a broken connection, or the same non-2xx
\* status), whatever the error message, the upstream's body and the
\* configured key, give the caller the same status and body.
C7_FailureAnswerIgnoresDetail ==
    \A i \in Slots : \A j \in Slots :
        (/\ server[i] = server[j]
         /\ req[i] = req[j]
         /\ ChatRequest(i)
         /\ Configured(i) /\ Configured(j)
         /\ Done(i) /\ Done(j)
         /\ UpstreamRefused(i) /\ UpstreamRefused(j)
         /\ up[i].kind = up[j].kind
         /\ up[i].kind = "response" => up[i].status = up[j].status)
        => /\ res[i].statusCode = res[j].statusCode
           /\ res[i].body = res[j].body

\* C8: every OPTIONS request, whatever its URL, on either server, is answered
\* at once with 204, Access-Control-Allow-Origin: * in the header block and
\* an empty body; it reaches no route and makes no upstream call.
Theorem_C8 ==
    \A i \in Slots :
        req[i].method = "OPTIONS"
        => /\ Done(i)
           /\ route[i] = "preflight"
           /\ res[i].ended
           /\ res[i].statusCode = 204
           /\ CorsOrigin \in res[i].head
           /\ res[i].body = <<>>
           /\ calls[i] = <<>>
           /\ up[i] = NoUp

\* An OPTIONS request to a URL with no route has been answered by the
\* raw-http server.
Witness_C8 ==
    \E i \in Slots :
        /\ server[i] = "http"
        /\ req[i].method = "OPTIONS"
        /\ req[i].url = "/other"
        /\ res[i].ended

\* C9: every response of the raw-http server has Access-Control-Allow-Origin:
\* * in the header block written with the status line, and every answered
\* request has such a response.
Theorem_C9 ==
    \A i \in Slots :
        server[i] = "http"
        => /\ res[i].headersSent => CorsOrigin \in res[i].head
           /\ Done(i) => res[i].headersSent /\ res[i].ended

\* The raw-http server has answered a chat request whose upstream body it
\* could not parse.
Witness_C9 ==
    \E i \in Slots :
        /\ server[i] = "http"
        /\ route[i] = "chat"
        /\ res[i].headersSent
        /\ res[i].statusCode = 500
        /\ res[i].body = JSONstringify(ErrorBody(MsgInvalidResponse))

\* No request makes a second upstream call.
AtMostOneCall == \A i \in Slots : Len(calls[i]) <= 1

\* C10: every POST /chat makes at most one upstream call, whatever its
\* outcome, and when that call fails (broken connection, non-2xx status, body
\* that is no completion) the response to the same request is an error.
C10_OneCallFailureReturned ==
    \A i \in Slots :
        /\ AtMostOneCall
        /\ (Done(i) /\ Configured(i) /\ ValidPayload(i) /\ UpstreamFailure(i))
           => res[i].ended /\ res[i].statusCode >= 400

\* The call of slot i has been made and the caller has no response yet.
Outstanding(i) == pc[i] \in {"sent", "receiving", "stalled"}

\* C11: every upstream call is bounded by a timeout: while the caller of a
\* POST /chat waits for its response, also after the upstream has gone
\* silent, a step that brings the response nearer (an event of the call or
\* the timeout) can still happen; the server is never left waiting for good.
C11_EveryCallIsAnswered ==
    (\E i \in Slots : Outstanding(i)) => ENABLED Next

\* What the handlers hold for the request of slot i.
SlotState(i) ==
    <<pc[i], req[i], rx[i], body[i], calls[i], up[i], urx[i], result[i],
      res[i], log[i], route[i]>>

\* q is the beginning of t.
IsPrefix(q, t) == Len(q) <= Len(t) /\ q = SubSeq(t, 1, Len(q))

\* In slot i everything read and written so far comes from the request and
\* the upstream answer of slot i itself.
OwnData(i) ==
    /\ IsPrefix(body[i], req[i].text)
    /\ calls[i] # <<>> => Utf8Decode(calls[i][1].wire) = req[i].text
    /\ IsPrefix(result[i], up[i].text)
    /\ \A c \in {<<"a">>, <<>>} :
          (/\ Done(i)
           /\ up[i].kind = "response"
           /\ up[i].text = JSONstringify(Completion(Str(c))))
          => res[i].body = ReplyBody(Str(c))

\* A step changes what is held for one request at most.
OneSlotStep ==
    Cardinality({i \in Slots : SlotState(i)' # SlotState(i)}) <= 1

\* The request of slot i was accepted and the process has exited without
\* answering it.
Dropped(i) == pc[i] = "exited" /\ req[i] # NoReq /\ ~res[i].ended

\* C12: two POST /chat requests in flight in one server are independent: in
\* every interleaving of their 'data' and 'end' events and of the upstream's
\* answers, each request forwards its own payload and answers with the reply
\* of its own upstream response, no request loses its answer through the
\* other, and every step reads and writes the state of one request only.
C12_RequestsAreIndependent ==
    /\ [](\A i \in {1, 2} : OwnData(i) /\ ~Dropped(i))
    /\ [][OneSlotStep]_vars

\* process.env.OPENAI_API_KEY as the configuration of slot i gives it: the
\* environment the process was started with, completed from .env.
Loaded(i) ==
    EnvGet(IF server[i] = "express"
           THEN DotenvConfig(ShellEnv(shell[i]), dotenv[i])
           ELSE LoadEnv(ShellEnv(shell[i]), dotenv[i]),
           KeyName)

\* C13: the configuration is loaded before the first request is accepted:
\* from the moment the server listens, process.env holds what the environment
\* and .env give, every outbound call is made with that key, and a key that
\* only a plain line KEY=VALUE of .env sets is the key of the call.
Theorem_C13 ==
    \A i \in Slots :
        /\ server[i] = Committed
           => (pc[i] \in {"start", "exited"} /\ req[i] = NoReq /\ calls[i] = <<>>)
        /\ pc[i] \notin {"start", "loaded", "exited"} => env[i] = Loaded(i)
        /\ calls[i] # <<>> => calls[i][1].auth = Bearer(Loaded(i))
        /\ (/\ calls[i] # <<>>
            /\ shell[i] = Undefined
            /\ dotenv[i].exists
            /\ dotenv[i].lines = <<(<<"OPENAI_API_KEY", "=", "sk-F">>)>>)
           => calls[i][1].auth.token = <<"sk-F">>

\* A server started without the key in its environment and with the key in
\* .env has made an outbound call.
Witness_C13 ==
    \E i \in Slots :
        /\ shell[i] = Undefined
        /\ dotenv[i].exists
        /\ dotenv[i].lines = <<(<<"OPENAI_API_KEY", "=", "sk-F">>)>>
        /\ calls[i] # <<>>

\* ------------------------------------------------- ingestion and query

Jobs == DOMAIN job

Upload(k) == job[k].kind = "upload"

Query(k) == job[k].kind = "query"

Answered500(k) == job[k].pc = "done" /\ job[k].status = 500

Answered200(k) == job[k].pc = "done" /\ job[k].status = 200

\* How often the request k has called the embedding endpoint.
EmbeddingCalls(k) == Cardinality({n \in DOMAIN job[k].sent : job[k].sent[n] = "embed"})

\* The records the index holds for the upload k.
RecordsOf(k) == {n \in DOMAIN records : records[n].id = TmpName(k)}

\* C15: once an upload has been answered, on whatever path, its temporary
\* file no longer exists.
C15_TempFileIsRemoved ==
    \A k \in Jobs : (Upload(k) /\ job[k].pc = "done") => TmpName(k) \notin tmpdir

\* The file f of the intake server was written by a request that has been
\* answered.
Orphaned(f) == \E j \in DOMAIN ipc : f = IntakeFile("output.pdf", j) /\ ipc[j] = "done"

\* C14: once a request to any endpoint of the servers has completed, with
\* success or with an error, no file written while it was handled exists:
\* no file of an answered intake request, and no temporary file of an
\* answered request of the relay.
C14_NoFileOutlivesItsRequest ==
    /\ \A f \in files : ~Orphaned(f)
    /\ \A k \in Jobs : job[k].pc = "done" => TmpName(k) \notin tmpdir

\* C16: without a configured vector index every answer to an upload or a
\* query is a server error, and the request never calls the embedding
\* endpoint.
Theorem_C16 ==
    ~indexOn =>
        \A k \in Jobs :
            /\ EmbeddingCalls(k) = 0
            /\ job[k].pc \notin {"embedding", "upserting", "querying"}
            /\ job[k].pc = "done" => job[k].status = 500

\* An upload and a query have both been answered with no index configured,
\* the upload after its OCR run.
Witness_C16 ==
    /\ ~indexOn
    /\ \E k \in Jobs : Upload(k) /\ Answered500(k) /\ job[k].ocr = "exited"
    /\ \E k \in Jobs : Query(k) /\ Answered500(k)

\* C17: without a configured vector index an upload is refused before any
\* OCR process is spawned.
C17_NoIndexNoOcr ==
    \A k \in Jobs : (Upload(k) /\ ~indexOn) => job[k].sent = <<>>

\* C18: an upload calls OCR, embedding and upsert in this order, the upsert
\* only after its embedding call has succeeded; when the embedding call
\* fails the answer is a server error and the index never holds a record of
\* the upload.
Theorem_C18 ==
    \A k \in Jobs :
        Upload(k) =>
            /\ IsPrefix(job[k].sent, <<"ocr", "embed", "upsert">>)
            /\ Len(job[k].sent) = 3 => job[k].embedded
            /\ RecordsOf(k) # {} => (job[k].embedded /\ Len(job[k].sent) = 3)
            /\ (job[k].pc = "done" /\ Len(job[k].sent) = 2)
                  => (job[k].status = 500 /\ ~job[k].embedded /\ RecordsOf(k) = {})

\* One upload failed at its embedding call and another one was indexed.
Witness_C18 ==
    /\ \E k \in Jobs : Upload(k) /\ Answered500(k) /\ job[k].sent = <<"ocr", "embed">>
    /\ \E k \in Jobs : Upload(k) /\ Answered200(k) /\ RecordsOf(k) # {}

\* The match list of a successful answer to the query k.
Matches(k) == job[k].reply[2]

\* The index returned zero matches to the query k.
ZeroMatches(k) == Query(k) /\ job[k].index = "returned" /\ job[k].hits = <<>>

\* The embedding call of the query k failed.
EmbeddingFailed(k) == Query(k) /\ job[k].embed = "failed"

\* C19: a successful answer to a query holds at most 5 matches; a query to
\* which the index returned its matches is answered with a success that
\* holds just these, so that zero matches give status 200 and the empty
\* match list; a query whose embedding call failed is answered with the
\* server error, status 500 and no match list.
Theorem_C19 ==
    \A k \in Jobs :
        /\ (Query(k) /\ Answered200(k)) =>
              /\ job[k].reply[1] = "matches"
              /\ Len(Matches(k)) <= 5
              /\ Len(Matches(k)) <= Len(records)
        /\ (Query(k) /\ job[k].index = "returned") =>
              /\ Answered200(k)
              /\ job[k].reply = <<"matches", job[k].hits>>
        /\ ZeroMatches(k) =>
              /\ job[k].status = 200
              /\ job[k].reply = <<"matches", <<>>>>
        /\ EmbeddingFailed(k) =>
              /\ Answered500(k)
              /\ job[k].reply = <<"error">>
              /\ job[k].sent = <<"embed">>

\* The index returned zero matches to one query, which was answered 200 with
\* the empty match list, and the embedding call of another query failed,
\* which was answered 500.
Witness_C19 ==
    /\ \E k \in Jobs : ZeroMatches(k) /\ Answered200(k) /\ Matches(k) = <<>>
    /\ \E k \in Jobs : EmbeddingFailed(k) /\ Answered500(k)

\* The OCR run of the upload k ended and gave the empty text.
EmptyOcr(k) == Upload(k) /\ job[k].ocr = "exited" /\ job[k].text = ""

\* The request k failed at a step for a reason that the text has no part
\* in: no index is configured, the embedding endpoint is unreachable or
\* answers non-2xx whatever it is given, or the upsert failed.
FailedOtherwise(k) ==
    \/ ~indexOn
    \/ job[k].embed = "failed"
    \/ Answered500(k) /\ job[k].sent = <<"ocr", "embed", "upsert">>

\* C20: an upload whose OCR step yields the empty text, a failed OCR run
\* included, and which no other failure befalls, is answered
\* { success: true } and its record in the index has the empty text as
\* metadata.
C20_EmptyTextStillSucceeds ==
    \A k \in Jobs :
        (EmptyOcr(k) /\ job[k].pc = "done" /\ ~FailedOtherwise(k)) =>
            /\ job[k].status = 200
            /\ \E n \in RecordsOf(k) : records[n].metadata.text = ""

\* ------------------------------------------------------ one response

\* The upstream call of slot i has come to its end: 'end' of the response
\* was delivered, or 'error' of the request (after which 'end' may follow).
UpTerminated(i) ==
    \/ up[i].kind = "error"
    \/ up[i].kind = "response" /\ pc[i] = "done"

\* A step writes a response whole, its status line with its body, and never
\* touches a response that was ended.
WritesOnce(i) ==
    /\ res[i].ended => res'[i] = res[i]
    /\ res'[i] # res[i] => (res'[i].headersSent /\ res'[i].ended)

\* C21: in the raw-http server a POST /chat whose upstream call has come to
\* its end has a response, written in one step and never written again,
\* whatever the order of the upstream's 'data' events and its 'end' or
\* 'error', also when 'end' follows 'error'.
Theorem_C21 ==
    /\ [](\A i \in Slots :
            (server[i] = "http" /\ route[i] = "chat") =>
                /\ UpTerminated(i) => (res[i].headersSent /\ res[i].ended)
                /\ pc[i] \in {"reading", "sent", "receiving"} => ~res[i].headersSent)
    /\ [][\A i \in Slots : (server[i] = "http" /\ route[i] = "chat") => WritesOnce(i)]_vars

\* The connection was reset after a first 'data' event of a body delimited
\* by the close of the connection: 'error' answered the request with 500,
\* 'end' followed and the process has exited.
Witness_C21 ==
    \E i \in Slots :
        /\ server[i] = "http"
        /\ route[i] = "chat"
        /\ up[i].kind = "error"
        /\ up[i].framing = "close"
        /\ urx[i].n >= 1
        /\ pc[i] = "exited"
        /\ res[i].ended
        /\ res[i].statusCode = 500

\* ---------------------------------------------------------- the Chat page

\* C24: the chat history only grows at its end: a message once shown stays
\* where it is, whatever the order of sends and replies.
C24_HistoryIsAppendOnly == [][IsPrefix(chatHistory, chatHistory')]_vars

\* C25: at most one reply is pending at any time, and isProcessing is true
\* exactly while one is: nothing is sent while a reply is pending.
C25_OneReplyPending ==
    /\ Len(timers) <= 1
    /\ isProcessing <=> (timers # <<>>)

\* ------------------------------------------------- routing of the raw-http proxy

\* The request of slot i is forwarded: it is being read, or a call to the
\* upstream has been made for it.
Forwarded(i) == route[i] = "chat" \/ calls[i] # <<>> \/ up[i] # NoUp

\* C26: the raw-http server forwards a request only if its method is POST and
\* its URL is exactly /chat; every other request that is not a preflight
\* (other path, other method, /chat with a query string) is answered at once
\* with 404 and { error: "Not found" } and causes no call to the upstream.
Theorem_C26 ==
    \A i \in Slots :
        (server[i] = "http" /\ pc[i] # "idle")
        => /\ Forwarded(i) <=> (req[i].method = "POST" /\ req[i].url = "/chat")
           /\ (req[i].method # "OPTIONS"
               /\ ~(req[i].method = "POST" /\ req[i].url = "/chat"))
              => /\ Done(i)
                 /\ res[i].ended
                 /\ res[i].statusCode = 404
                 /\ res[i].body = JSONstringify(ErrorBody(MsgNotFound))
                 /\ calls[i] = <<>>
                 /\ up[i] = NoUp

\* A POST to /chat with a query string has been answered 404 by the raw-http
\* server.
Witness_C26 ==
    \E i \in Slots :
        /\ server[i] = "http"
        /\ req[i].method = "POST"
        /\ req[i].url = ChatWithQuery
        /\ res[i].ended
        /\ res[i].statusCode = 404

\* ------------------------------------------------------ the Documents page

FolderIds == {Folders[n].id : n \in 1..Len(Folders)}

\* The folder shown after n clicks on the back button, starting from cur.
RECURSIVE Ascend(_, _)
Ascend(cur, n) == IF n = 0 THEN cur ELSE Ascend(ParentOf(cur), n - 1)

\* C27: after any navigation the current folder is root or an existing
\* folder; from it, navigateToParent repeated as often as there are folders
\* ends at root; and navigateToParent at root stays at root.
Theorem_C27 ==
    /\ currentFolder \in {"root"} \cup FolderIds
    /\ Ascend(currentFolder, Len(Folders)) = "root"
    /\ ParentOf("root") = "root"

\* The page shows a folder two levels below root, reached by two clicks on
\* listed folders.
Witness_C27 == currentFolder = "folder4"

\* ---------------------------------------------------------- the form viewer

Fields == DOMAIN InitialFormData

\* The suggestion of f is pending.
Pending(f) == f \in DOMAIN aiSuggestions

\* The fields whose value this step changes.
Edited == {g \in Fields : formData'[g] # formData[g]}

\* This step takes the suggestion of f away: the field f gets the suggested
\* value, no other field changes and every other suggestion stays as it is.
AcceptsOnly(f) ==
    /\ formData' = [formData EXCEPT ![f] = aiSuggestions[f]]
    /\ DOMAIN aiSuggestions' = DOMAIN aiSuggestions \ {f}
    /\ \A g \in DOMAIN aiSuggestions' : aiSuggestions'[g] = aiSuggestions[g]

\* This step is the callback of a handleAIFill that was started before.
FillArrives ==
    /\ isAIFilling
    /\ ~isAIFilling'
    /\ fillTimers' = fillTimers - 1
    /\ formData' = formData

\* C28: in the form viewer, once mounted (from lines 272-618 as a file of
\* their own; from Settings.tsx as committed nothing is ever mounted and the
\* form stays empty), a suggestion goes away only by its acceptance, which
\* sets its field to the suggested value and leaves every other field and every other
\* suggestion as it is, whatever was accepted or edited before; a step that
\* takes no suggestion away changes at most one field and no suggestion,
\* unless it is the callback of handleAIFill; and a suggestion that is not
\* pending becomes pending only by that callback.
Theorem_C28 ==
    /\ [](viewer = "mounted"
          => (DOMAIN formData = Fields /\ DOMAIN aiSuggestions \subseteq DOMAIN Suggestions))
    /\ [](viewer # "mounted" => (formData = <<>> /\ aiSuggestions = <<>>))
    /\ [][viewer = "mounted" =>
            \A f \in Fields :
                /\ (Pending(f) /\ ~Pending(f)') => AcceptsOnly(f)
                /\ (~Pending(f) /\ Pending(f)') => FillArrives
                /\ (Pending(f) /\ Pending(f)' /\ aiSuggestions'[f] # aiSuggestions[f])
                   => FillArrives]_vars
    /\ [][(viewer = "mounted" /\ DOMAIN aiSuggestions' = DOMAIN aiSuggestions)
            => (Cardinality(Edited) <= 1 /\ (Edited # {} => aiSuggestions' = aiSuggestions))]_vars

\* Two suggestions were accepted and a field was edited in between, while
\* the other suggestions are still pending and the edit is kept.
Witness_C28 ==
    /\ viewer = "mounted"
    /\ formData.clientName = Suggestions.clientName
    /\ formData.address = Suggestions.address
    /\ formData.email = "x"
    /\ formData.dateOfBirth = "x"
    /\ ~Pending("clientName")
    /\ ~Pending("address")
    /\ Pending("dateOfBirth")
    /\ Pending("incidentDescription")
    /\ ~isAIFilling

\* ------------------------------------------------------ the loader of .env

RECURSIVE FirstOccurrence(_)
\* The value of the first line of lines that sets OPENAI_API_KEY, undefined
\* when no line does.
FirstOccurrence(lines) ==
    IF lines = <<>> THEN Undefined
    ELSE IF LoadEnvMatch(Head(lines)).ok /\ LoadEnvMatch(Head(lines)).key = KeyName
    THEN Str(LoadEnvMatch(Head(lines)).value)
    ELSE FirstOccurrence(Tail(lines))

\* C29: loadEnv never overrides a variable of the process environment: a
\* variable that is set, to whatever value, keeps its value; a variable that
\* is not set gets the value of its first line in .env; without a .env the
\* environment stays as it is.
C29_EnvironmentTakesPrecedence ==
    \A i \in Slots :
        (server[i] = "http" /\ pc[i] # "start")
        => /\ shell[i] # Undefined => env[i] = shell[i]
           /\ (shell[i] = Undefined /\ dotenv[i].exists)
              => env[i] = FirstOccurrence(dotenv[i].lines)
           /\ ~dotenv[i].exists => env[i] = shell[i]

====
